---- MODULE Spec2Model ----
(***************************************************************************)
(* Model of the theme-engine reconciliation logic: the ThemeProvider       *)
(* (src/src/providers/UnifiedThemeProvider.tsx), the pre-hydration         *)
(* ThemeScript (src/src/components/UnifiedThemeScript.tsx), the colour     *)
(* utilities (src/src/utils/colors.ts) and the preset validator            *)
(* (src/src/utils/preset-validation.ts).                                   *)
(*                                                                         *)
(* CSS values are strings in the program.  They are modelled as records    *)
(* tagged with their syntactic form, and every string operation of the     *)
(* program (regex test, split, parseFloat, parseInt) is modelled by what   *)
(* it does to a string of that form.                                       *)
(***************************************************************************)
EXTENDS Integers, Sequences, FiniteSets, TLC

(***************************************************************************)
(* Bounds of the model.                                                    *)
(***************************************************************************)
MaxOps == 2

(***************************************************************************)
(* CSS values.                                                             *)
(*   hex      "#rrggbb"                                                    *)
(*   rgb      "rgb(r, g, b)"                                               *)
(*   hsl      "hsl(h s% l%)"                                               *)
(*   triplet  "h s% l%"                                                    *)
(*   var      "var(--name)"                                                *)
(*   named    a CSS colour keyword; r, g, b is what the browser's          *)
(*            getComputedStyle reports for it                              *)
(*   raw      any other string (font stacks, lengths, ...), "" included    *)
(***************************************************************************)
Hex(r, g, b) == [k |-> "hex", a |-> r, b |-> g, c |-> b, text |-> ""]
Rgb(r, g, b) == [k |-> "rgb", a |-> r, b |-> g, c |-> b, text |-> ""]
Hsl(h, s, l) == [k |-> "hsl", a |-> h, b |-> s, c |-> l, text |-> ""]
Triplet(h, s, l) == [k |-> "triplet", a |-> h, b |-> s, c |-> l, text |-> ""]
CssVar(name) == [k |-> "var", a |-> 0, b |-> 0, c |-> 0, text |-> name]
Named(name, r, g, b) == [k |-> "named", a |-> r, b |-> g, c |-> b, text |-> name]
Raw(text) == [k |-> "raw", a |-> 0, b |-> 0, c |-> 0, text |-> text]

EmptyString == Raw("")

\* JavaScript truthiness of a string value: only "" is falsy.
Truthy(v) == v # EmptyString

Max2(x, y) == IF x >= y THEN x ELSE y
Min2(x, y) == IF x <= y THEN x ELSE y
Clamp(n, lo, hi) == Min2(hi, Max2(lo, n))

\* Math.round(n / d) for n >= 0, d > 0.
Round(n, d) == (2 * n + d) \div (2 * d)

(***************************************************************************)
(* src/src/utils/colors.ts                                                 *)
(***************************************************************************)
HslRec(h, s, l) == [h |-> h, s |-> s, l |-> l]
RgbRec(r, g, b) == [r |-> r, g |-> g, b |-> b]
NoParse == [none |-> TRUE]

(***************************************************************************)
(* IEEE 754 double arithmetic, for the places where the program rounds a    *)
(* quotient that is exactly halfway between two integers.  A natural number *)
(* is a sequence of digits to the base 2^15, least significant first,       *)
(* without a leading zero digit; a double is m * 2^e with m = 0 or          *)
(* 2^52 <= m < 2^53.                                                        *)
(***************************************************************************)
Base == 32768

RECURSIVE BigTrim(_)
BigTrim(x) ==
  IF x = <<>> \/ x[Len(x)] # 0 THEN x ELSE BigTrim(SubSeq(x, 1, Len(x) - 1))

RECURSIVE BigOfInt(_)
BigOfInt(n) == IF n = 0 THEN <<>> ELSE <<n % Base>> \o BigOfInt(n \div Base)

RECURSIVE BigToInt(_)
BigToInt(x) == IF x = <<>> THEN 0 ELSE Head(x) + Base * BigToInt(Tail(x))

BigDigit(x, i) == IF i <= Len(x) THEN x[i] ELSE 0

RECURSIVE BigAddFrom(_, _, _, _)
BigAddFrom(x, y, i, carry) ==
  IF i > Len(x) /\ i > Len(y) THEN (IF carry = 0 THEN <<>> ELSE <<carry>>)
  ELSE LET t == BigDigit(x, i) + BigDigit(y, i) + carry
       IN <<t % Base>> \o BigAddFrom(x, y, i + 1, t \div Base)
BigAdd(x, y) == BigAddFrom(x, y, 1, 0)

\* x - y for x >= y.
RECURSIVE BigSubFrom(_, _, _, _)
BigSubFrom(x, y, i, borrow) ==
  IF i > Len(x) THEN <<>>
  ELSE LET t == x[i] - BigDigit(y, i) - borrow
       IN IF t < 0 THEN <<t + Base>> \o BigSubFrom(x, y, i + 1, 1)
          ELSE <<t>> \o BigSubFrom(x, y, i + 1, 0)
BigSub(x, y) == BigTrim(BigSubFrom(x, y, 1, 0))

BigLess(x, y) ==
  \/ Len(x) < Len(y)
  \/ /\ Len(x) = Len(y)
     /\ \E i \in 1..Len(x) : /\ x[i] < y[i]
                             /\ \A j \in (i + 1)..Len(x) : x[j] = y[j]

\* x * k for 0 <= k <= 2^15.
RECURSIVE BigTimesFrom(_, _, _, _)
BigTimesFrom(x, k, i, carry) ==
  IF i > Len(x) THEN BigOfInt(carry)
  ELSE LET t == x[i] * k + carry
       IN <<t % Base>> \o BigTimesFrom(x, k, i + 1, t \div Base)
BigTimes(x, k) == BigTrim(BigTimesFrom(x, k, 1, 0))

\* The number of binary digits of x.
BitLength(x) ==
  IF x = <<>> THEN 0
  ELSE 15 * (Len(x) - 1) + (CHOOSE b \in 1..15 : x[Len(x)] \div 2^(b - 1) = 1)

\* x * 2^k.
BigShiftLeft(x, k) ==
  IF x = <<>> THEN <<>>
  ELSE BigTimes([i \in 1..(k \div 15) |-> 0] \o x, 2^(k % 15))

\* The digits kept of x after dropping whole digits and bits binary digits,
\* and whether a binary digit other than 0 was dropped.
ShiftedDigits(x, kept, whole, bits) ==
  [q |-> BigTrim([i \in 1..Len(kept) |->
                    kept[i] \div 2^bits
                      + (BigDigit(kept, i + 1) % 2^bits) * 2^(15 - bits)]),
   lost |-> \/ \E i \in 1..Min2(whole, Len(x)) : x[i] # 0
            \/ kept # <<>> /\ kept[1] % 2^bits # 0]

\* x \div 2^k, and whether a binary digit other than 0 was dropped.
BigShiftRight(x, k) ==
  ShiftedDigits(x, SubSeq(x, k \div 15 + 1, Len(x)), k \div 15, k % 15)

BigIsOdd(x) == x # <<>> /\ x[1] % 2 = 1

Double(m, e) == [m |-> m, e |-> e]
DoubleZero == Double(<<>>, 0)

\* A mantissa of 53 or 54 binary digits as a double.
Normalized(m, e) ==
  IF BitLength(m) = 54 THEN Double(BigShiftRight(m, 1).q, e + 1) ELSE Double(m, e)

\* q * 2^e plus what was dropped: half of the last binary digit when half,
\* and something below when more.  Ties go to the even mantissa.
RoundedMantissa(q, half, more, e) ==
  Normalized(IF half /\ (more \/ BigIsOdd(q)) THEN BigAdd(q, <<1>>) ELSE q, e)

\* upper holds one binary digit more than the mantissa.
RoundedKept(upper, sticky, e) ==
  RoundedMantissa(BigShiftRight(upper.q, 1).q, BigIsOdd(upper.q),
                  upper.lost \/ sticky, e)

\* n has 53 + k binary digits.
RoundedAt(n, e, sticky, k) ==
  IF k <= 0 THEN Double(BigShiftLeft(n, 0 - k), e + k)
  ELSE RoundedKept(BigShiftRight(n, k - 1), sticky, e + k)

\* The double nearest to n * 2^e (plus a fraction of its last binary digit
\* when sticky), ties to the even mantissa.
RoundToDouble(n, e, sticky) ==
  IF n = <<>> THEN DoubleZero ELSE RoundedAt(n, e, sticky, BitLength(n) - 53)

DoubleOfInt(n) == RoundToDouble(BigOfInt(n), 0, FALSE)

\* The mantissa of x for the exponent e <= x.e.
Aligned(x, e) == BigShiftLeft(x.m, x.e - e)

\* x + y
DoubleAdd(x, y) ==
  IF x.m = <<>> THEN y
  ELSE IF y.m = <<>> THEN x
  ELSE RoundToDouble(BigAdd(Aligned(x, Min2(x.e, y.e)), Aligned(y, Min2(x.e, y.e))),
                     Min2(x.e, y.e), FALSE)

\* x - y for x >= y
DoubleSub(x, y) ==
  IF y.m = <<>> THEN x
  ELSE RoundToDouble(BigSub(Aligned(x, Min2(x.e, y.e)), Aligned(y, Min2(x.e, y.e))),
                     Min2(x.e, y.e), FALSE)

\* Binary long division of r by d for r < 2 * d: after the given number of
\* steps q holds that many binary digits of the quotient and r what remains.
RECURSIVE QuotientDigits(_, _, _)
QuotientDigits(at, d, steps) ==
  IF steps = 0 THEN at
  ELSE IF BigLess(at.r, d)
       THEN QuotientDigits([q |-> BigTimes(at.q, 2), r |-> BigTimes(at.r, 2)],
                           d, steps - 1)
       ELSE QuotientDigits([q |-> BigAdd(BigTimes(at.q, 2), <<1>>),
                            r |-> BigTimes(BigSub(at.r, d), 2)],
                           d, steps - 1)

\* The quotient digits as a double.
RoundedQuotient(digits, e) == RoundToDouble(digits.q, e, digits.r # <<>>)

\* x / y for y # 0
DoubleDiv(x, y) ==
  IF x.m = <<>> THEN DoubleZero
  ELSE RoundedQuotient(QuotientDigits([q |-> <<>>, r |-> x.m], y.m, 57),
                       x.e - y.e - 56)

\* x * k for a whole number k, 0 <= k <= 2^15
DoubleTimes(x, k) == RoundToDouble(BigTimes(x.m, k), x.e, FALSE)

\* x / 2
DoubleHalf(x) == IF x.m = <<>> THEN x ELSE Double(x.m, x.e - 1)

DoubleLess(x, y) ==
  IF y.m = <<>> THEN FALSE
  ELSE IF x.m = <<>> THEN TRUE
  ELSE x.e < y.e \/ (x.e = y.e /\ BigLess(x.m, y.m))

\* Math.round(x) for 0 <= x < 2^30: the floor of x + 1/2.
MathRound(x) ==
  IF x.m = <<>> THEN 0
  ELSE (BigToInt(IF x.e >= -1 THEN BigShiftLeft(x.m, x.e + 1)
                 ELSE BigShiftRight(x.m, 0 - x.e - 1).q) + 1) \div 2

\* n / d is halfway between two integers.
IsHalf(n, d) == (2 * n) % d = 0 /\ ((2 * n) \div d) % 2 = 1

\* rgbToHsl as the program computes it, in doubles, one operator per step.
\* Line 119-121: a channel as a double.
ChannelToDouble(n) == DoubleDiv(DoubleOfInt(n), DoubleOfInt(255))

\* Math.round(x * k) of lines 149-151.
Scaled(x, k) == MathRound(DoubleTimes(x, k))

\* Line 131: s = l > 0.5 ? diff / (2 - max - min) : diff / (max + min).
SaturationDivisor(max, min, sum) ==
  IF DoubleLess(DoubleHalf(DoubleOfInt(1)), DoubleHalf(sum))
  THEN DoubleSub(DoubleSub(DoubleOfInt(2), max), min)
  ELSE sum

\* Lines 133-143: the quotient of the switch plus its offset; a negative
\* quotient -q plus the offset is the offset minus q.
Sixths(quotient, negative, offset) ==
  IF negative THEN DoubleSub(DoubleOfInt(offset), quotient)
  ELSE DoubleAdd(quotient, DoubleOfInt(offset))

\* Lines 145 and 148-152: h /= 6 and the rounded result.
HslOfLightness(l, s, sixths) ==
  HslRec(Scaled(DoubleDiv(sixths, DoubleOfInt(6)), 360), Scaled(s, 100),
         Scaled(l, 100))

\* Lines 127-143 from diff = max - min and max + min.
HslOfSpread(max, min, diff, sum, span, negative, offset) ==
  HslOfLightness(DoubleHalf(sum), DoubleDiv(diff, SaturationDivisor(max, min, sum)),
             Sixths(DoubleDiv(span, diff), negative, offset))

\* Lines 123-127: max, min and their difference; upper - lower is the
\* magnitude of the difference the switch divides.
HslOfChannels(max, min, upper, lower, negative, offset) ==
  HslOfSpread(max, min, DoubleSub(max, min), DoubleAdd(max, min),
              DoubleSub(upper, lower), negative, offset)

\* The channels are compared as the integers they come from: n / 255 grows
\* with n.  case r: (g - b) / diff + (g < b ? 6 : 0); case g:
\* (b - r) / diff + 2; case b: (r - g) / diff + 4.
rgbToHslInDoubles(rgb) ==
  LET maxInt == Max2(rgb.r, Max2(rgb.g, rgb.b))
      minInt == Min2(rgb.r, Min2(rgb.g, rgb.b))
      switch == IF maxInt = rgb.r
                THEN [first |-> rgb.g, second |-> rgb.b,
                      offset |-> IF rgb.g < rgb.b THEN 6 ELSE 0]
                ELSE IF maxInt = rgb.g
                THEN [first |-> rgb.b, second |-> rgb.r, offset |-> 2]
                ELSE [first |-> rgb.r, second |-> rgb.g, offset |-> 4]
  IN IF maxInt = minInt
     THEN HslRec(0, 0, Scaled(ChannelToDouble(maxInt), 100))
     ELSE HslOfChannels(ChannelToDouble(maxInt), ChannelToDouble(minInt),
                        ChannelToDouble(Max2(switch.first, switch.second)),
                        ChannelToDouble(Min2(switch.first, switch.second)),
                        switch.first < switch.second, switch.offset)

\* rgbToHsl for whole channels 0..255: max/min channel algorithm.  The
\* channels are r/255, so that h * 360, s * 100 and l * 100 are quotients
\* of integers (h * 360 = 60 * sixth-turns).  The program computes them in
\* doubles, whose error is far below the distance of such a quotient from
\* the nearest half unless the quotient is a half itself: Math.round gives
\* the rounded quotient, and for a half what the double arithmetic gives.
rgbToHsl(rgb) ==
  LET r == rgb.r
      g == rgb.g
      b == rgb.b
      max == Max2(r, Max2(g, b))
      min == Min2(r, Min2(g, b))
      diff == max - min
      sum == max + min
      sDivisor == IF sum > 255 THEN 510 - sum ELSE sum
      hDividend == IF max = r THEN 60 * (g - b) + (IF g < b THEN 360 * diff ELSE 0)
                   ELSE IF max = g THEN 60 * (b - r) + 120 * diff
                   ELSE 60 * (r - g) + 240 * diff
  IN IF diff = 0 THEN HslRec(0, 0, Round(100 * sum, 510))
     ELSE IF IsHalf(hDividend, diff) \/ IsHalf(100 * diff, sDivisor)
          THEN rgbToHslInDoubles(rgb)
     ELSE HslRec(Round(hDividend, diff), Round(100 * diff, sDivisor),
                 Round(100 * sum, 510))

\* The characters of the strings that the model uses as raw values and as
\* colour keywords: what the string operations below work on.
Characters(text) ==
  CASE text = "" -> <<>>
    [] text = "0.25rem" -> <<"0", ".", "2", "5", "r", "e", "m">>
    [] text = "0.3rem" -> <<"0", ".", "3", "r", "e", "m">>
    [] text = "0.5rem" -> <<"0", ".", "5", "r", "e", "m">>
    [] text = "0.75rem" -> <<"0", ".", "7", "5", "r", "e", "m">>
    [] text = "10px" -> <<"1", "0", "p", "x">>
    [] text = "1rem" -> <<"1", "r", "e", "m">>
    [] text = "20px" -> <<"2", "0", "p", "x">>
    [] text = "Fira Code" -> <<"F", "i", "r", "a", " ", "C", "o", "d", "e">>
    [] text = "Georgia" -> <<"G", "e", "o", "r", "g", "i", "a">>
    [] text = "Inter" -> <<"I", "n", "t", "e", "r">>
    [] text = "JetBrains Mono"
         -> <<"J", "e", "t", "B", "r", "a", "i", "n", "s", " ", "M", "o", "n", "o">>
    [] text = "Old" -> <<"O", "l", "d">>
    [] text = "normal" -> <<"n", "o", "r", "m", "a", "l">>
    [] text = "not-a-color"
         -> <<"n", "o", "t", "-", "a", "-", "c", "o", "l", "o", "r">>
    [] text = "white" -> <<"w", "h", "i", "t", "e">>

\* A result of parseInt: NaN or a number.
NaN == [nan |-> TRUE, n |-> 0]
Number(n) == [nan |-> FALSE, n |-> n]

\* The white space and the line terminators of ECMAScript, which parseInt,
\* parseFloat and trim skip and on which \s splits: blank, tab, line feed,
\* carriage return, form feed, and then vertical tab (U+000B), no-break
\* space (U+00A0), ogham space mark (U+1680) and U+FEFF.  The space
\* separators from U+2000 on are no characters of a string of this module.
WhiteSpace == {" ", "\t", "\n", "\r", "\f", "", " ", " ", "﻿"}

Digits == <<"0", "1", "2", "3", "4", "5", "6", "7", "8", "9">>
LowerHex == <<"a", "b", "c", "d", "e", "f">>
UpperHex == <<"A", "B", "C", "D", "E", "F">>

\* The place of a character in a sequence of characters, 0 if it is not in it.
IndexOf(chars, ch) ==
  IF \E i \in 1..Len(chars) : chars[i] = ch
  THEN CHOOSE i \in 1..Len(chars) : chars[i] = ch /\ \A j \in 1..(i - 1) : chars[j] # ch
  ELSE 0

\* The value of a character as a hexadecimal digit, -1 if it is none.
HexValue(ch) ==
  IF IndexOf(Digits \o LowerHex, ch) # 0 THEN IndexOf(Digits \o LowerHex, ch) - 1
  ELSE IndexOf(UpperHex, ch) + (IF IndexOf(UpperHex, ch) = 0 THEN -1 ELSE 9)

\* parseInt of two characters with the hexadecimal values d1 and d2.
ParsedPair(c1, c2, d1, d2) ==
  IF c1 \in WhiteSpace \cup {"+"} THEN (IF d2 >= 0 THEN Number(d2) ELSE NaN)
  ELSE IF c1 = "-" THEN (IF d2 >= 0 THEN Number(0 - d2) ELSE NaN)
  ELSE IF c1 = "0" /\ c2 \in {"x", "X"} THEN NaN
  ELSE IF d1 < 0 THEN NaN
  ELSE IF d2 < 0 THEN Number(d1)
  ELSE Number(16 * d1 + d2)

\* parseInt(pair, 16) of a string of two characters: white space in front
\* is skipped, a sign and the prefix "0x" are read, and the digits up to the
\* first character that is no hexadecimal digit are the number.
ParseInt16(c1, c2) == ParsedPair(c1, c2, HexValue(c1), HexValue(c2))

\* Line 62: replace('#', '') drops the first "#", at place i if i # 0.
WithoutAt(chars, i) ==
  IF i = 0 THEN chars ELSE SubSeq(chars, 1, i - 1) \o SubSeq(chars, i + 1, Len(chars))

\* Lines 64-66: a 3-character form is doubled.
Doubled(hex) ==
  IF Len(hex) = 3 THEN <<hex[1], hex[1], hex[2], hex[2], hex[3], hex[3]>> ELSE hex

\* Lines 74-77: a NaN channel rejects the string.
RgbOfPairs(r, g, b) ==
  IF r.nan \/ g.nan \/ b.nan THEN NoParse ELSE RgbRec(r.n, g.n, b.n)

\* Lines 68-72: six characters are required and read in pairs.
RgbOfHex(hex) ==
  IF Len(hex) # 6 THEN NoParse
  ELSE RgbOfPairs(ParseInt16(hex[1], hex[2]), ParseInt16(hex[3], hex[4]),
                  ParseInt16(hex[5], hex[6]))

\* Lines 62-77 of parseHex on the characters of a string.
HexOfCharacters(chars) == RgbOfHex(Doubled(WithoutAt(chars, IndexOf(chars, "#"))))

\* Lines 33-36: the string without any "hsl(" and ")".
RECURSIVE WithoutHslWrapper(_)
WithoutHslWrapper(chars) ==
  IF chars = <<>> THEN <<>>
  ELSE IF Len(chars) >= 4 /\ SubSeq(chars, 1, 4) = <<"h", "s", "l", "(">>
       THEN WithoutHslWrapper(SubSeq(chars, 5, Len(chars)))
  ELSE IF Head(chars) = ")" THEN WithoutHslWrapper(Tail(chars))
  ELSE <<Head(chars)>> \o WithoutHslWrapper(Tail(chars))

\* Lines 35-38: "," and "%" become blanks, the string is trimmed and split
\* on runs of white space, and empty parts are dropped: the parts are the
\* maximal runs of other characters.
RECURSIVE SplitParts(_, _)
SplitParts(chars, part) ==
  IF chars = <<>> THEN (IF part = <<>> THEN <<>> ELSE <<part>>)
  ELSE IF Head(chars) \in WhiteSpace \cup {",", "%"}
       THEN (IF part = <<>> THEN <<>> ELSE <<part>>) \o SplitParts(Tail(chars), <<>>)
  ELSE SplitParts(Tail(chars), Append(part, Head(chars)))

\* A result of parseFloat: NaN, an infinity, or the number m * 10^e of the
\* sign neg, where m is 0 or not a multiple of 10.  A decimal literal of at
\* most nine significant digits is read exactly: the double nearest to it
\* prints as that decimal, unless it is smaller than 2.3e-308.
Float(neg, m, e) == [nan |-> FALSE, inf |-> FALSE, neg |-> neg, m |-> m, e |-> e]
Infinity(neg) == [nan |-> FALSE, inf |-> TRUE, neg |-> neg, m |-> 0, e |-> 0]

RECURSIVE SkipWhiteSpace(_)
SkipWhiteSpace(chars) ==
  IF chars # <<>> /\ Head(chars) \in WhiteSpace THEN SkipWhiteSpace(Tail(chars))
  ELSE chars

\* The number of decimal digits in front of a sequence of characters.
RECURSIVE DigitRun(_)
DigitRun(chars) ==
  IF chars # <<>> /\ IndexOf(Digits, Head(chars)) # 0 THEN 1 + DigitRun(Tail(chars))
  ELSE 0

\* The value of a sequence of decimal digits after the value n.
RECURSIVE DigitsValue(_, _)
DigitsValue(digits, n) ==
  IF digits = <<>> THEN n
  ELSE DigitsValue(Tail(digits), 10 * n + IndexOf(Digits, Head(digits)) - 1)

\* The value of the digits of an exponent; past every exponent of a double
\* the further digits make no difference.
RECURSIVE ExponentValue(_, _)
ExponentValue(digits, n) ==
  IF digits = <<>> \/ n > 1000 THEN n
  ELSE ExponentValue(Tail(digits), 10 * n + IndexOf(Digits, Head(digits)) - 1)

\* ExponentPart: "e" or "E", an optional sign and at least one digit; 0 when
\* the characters do not start with one.
SignedExponent(chars) ==
  IF chars # <<>> /\ Head(chars) = "-"
  THEN 0 - ExponentValue(SubSeq(chars, 2, 1 + DigitRun(Tail(chars))), 0)
  ELSE IF chars # <<>> /\ Head(chars) = "+"
  THEN ExponentValue(SubSeq(chars, 2, 1 + DigitRun(Tail(chars))), 0)
  ELSE ExponentValue(SubSeq(chars, 1, DigitRun(chars)), 0)

Exponent(chars) ==
  IF chars # <<>> /\ Head(chars) \in {"e", "E"} THEN SignedExponent(Tail(chars)) ELSE 0

RECURSIVE Pow10(_)
Pow10(k) == IF k = 0 THEN 1 ELSE 10 * Pow10(k - 1)

\* The number of decimal digits of a positive integer.
RECURSIVE DigitCount(_)
DigitCount(m) == IF m < 10 THEN 1 ELSE 1 + DigitCount(m \div 10)

\* An integer m of d digits as the digits of a magnitude m * 10^e that has
\* the decimal exponent of the largest double, 1.7976931348623157e308, or
\* of half the smallest, 2.47e-324: it rounds to an infinity, or to 0.
Overflows(m, d) ==
  IF d > 9 THEN m >= 1797693135 ELSE m * Pow10(9 - d) >= 179769314
Underflows(m, d) == d > 9 \/ m * Pow10(9 - d) <= 247032822

\* The double for m * 10^e, where m has d digits.
Ranged(neg, m, e, d) ==
  IF e + d > 309 \/ (e + d = 309 /\ Overflows(m, d)) THEN Infinity(neg)
  ELSE IF e + d < 0 - 323 \/ (e + d = 0 - 323 /\ Underflows(m, d))
  THEN Float(neg, 0, 0)
  ELSE Float(neg, m, e)

\* m * 10^e without the zeros at the end of m.
RECURSIVE Normal(_, _, _)
Normal(neg, m, e) ==
  IF m = 0 THEN Float(neg, 0, 0)
  ELSE IF m % 10 = 0 THEN Normal(neg, m \div 10, e + 1)
  ELSE Ranged(neg, m, e, DigitCount(m))

\* The digits before and after the point and what follows them: without a
\* digit there is no number.
Mantissa(neg, int, frac, rest) ==
  IF int = <<>> /\ frac = <<>> THEN NaN
  ELSE Normal(neg, DigitsValue(int \o frac, 0), Exponent(rest) - Len(frac))

\* A literal with k digits before the point and f digits after it.
AfterFraction(neg, chars, k, f) ==
  Mantissa(neg, SubSeq(chars, 1, k), SubSeq(chars, k + 2, k + 1 + f),
           SubSeq(chars, k + f + 2, Len(chars)))

\* A literal with k digits in front.
AfterInteger(neg, chars, k) ==
  IF Len(chars) > k /\ chars[k + 1] = "."
  THEN AfterFraction(neg, chars, k, DigitRun(SubSeq(chars, k + 2, Len(chars))))
  ELSE Mantissa(neg, SubSeq(chars, 1, k), <<>>, SubSeq(chars, k + 1, Len(chars)))

\* StrUnsignedDecimalLiteral: "Infinity" or a decimal literal.
Unsigned(neg, chars) ==
  IF Len(chars) >= 8 /\ SubSeq(chars, 1, 8) = <<"I", "n", "f", "i", "n", "i", "t", "y">>
  THEN Infinity(neg)
  ELSE AfterInteger(neg, chars, DigitRun(chars))

Signed(chars) ==
  IF chars # <<>> /\ Head(chars) \in {"+", "-"}
  THEN Unsigned(Head(chars) = "-", Tail(chars))
  ELSE Unsigned(FALSE, chars)

\* parseFloat: white space in front is skipped and the longest decimal
\* literal at the start is the number ("12.5", ".5", "1e2", "-5", "+5",
\* "Infinity"); what follows the literal is ignored.
parseFloat(chars) == Signed(SkipWhiteSpace(chars))

\* Lines 42-44: parseFloat(part) || 0, where NaN and both zeros are falsy.
OrZero(x) ==
  IF x.nan THEN Float(FALSE, 0, 0)
  ELSE IF ~x.inf /\ x.m = 0 THEN Float(FALSE, 0, 0)
  ELSE x
LeadingNumber(chars) == OrZero(parseFloat(chars))

\* A component that is no whole number: m * 10^e with e < 0.
Decimal(m, e) == [m |-> m, e |-> e]

\* Lines 47-51: Math.max(0, Math.min(hi, x)), a whole number as an integer.
Clamped(x, hi) ==
  IF x.inf THEN (IF x.neg THEN 0 ELSE hi)
  ELSE IF x.neg \/ x.m = 0 THEN 0
  ELSE IF x.e >= 0
       THEN (IF x.e >= 3 \/ x.m > hi THEN hi ELSE Min2(hi, x.m * Pow10(x.e)))
  ELSE IF x.e <= 0 - 10 THEN Decimal(x.m, x.e)
  ELSE IF x.m \div Pow10(0 - x.e) >= hi THEN hi
  ELSE Decimal(x.m, x.e)

\* Lines 40-50: exactly three parts are required.
HslOfParts(parts) ==
  IF Len(parts) # 3 THEN NoParse
  ELSE HslRec(Clamped(LeadingNumber(parts[1]), 360),
              Clamped(LeadingNumber(parts[2]), 100),
              Clamped(LeadingNumber(parts[3]), 100))

\* Lines 33-50 of parseHSL on the characters of a string.
HslOfCharacters(chars) == HslOfParts(SplitParts(WithoutHslWrapper(chars), <<>>))

\* parseHSL: strips "hsl(" and ")", turns "," and "%" into blanks, splits on
\* white space and accepts any string that leaves exactly three parts; a
\* part that does not start with a number counts as 0 (parseFloat(..) || 0).
\*   "hsl(h s% l%)"  -> h s l          "h s% l%"  -> h s l
\*   "rgb(r, g, b)"  -> "rgb(r" g b    (three parts: h = 0, s = g, l = b)
\*   "#rrggbb", "var(--x)" -> one part
\*   a keyword or another string -> by its characters
parseHSL(v) ==
  CASE v.k \in {"hsl", "triplet"} ->
         HslRec(Clamp(v.a, 0, 360), Clamp(v.b, 0, 100), Clamp(v.c, 0, 100))
    [] v.k = "rgb" ->
         HslRec(0, Clamp(v.b, 0, 100), Clamp(v.c, 0, 100))
    [] v.k \in {"raw", "named"} -> HslOfCharacters(Characters(v.text))
    [] OTHER -> NoParse

\* parseHex: drops "#", doubles a 3-character form, requires 6 characters
\* and reads each pair with parseInt(.., 16), which accepts a pair that
\* starts with a hexadecimal digit.  "rgb(..)", "hsl(..)", "h s% l%" and
\* "var(--x)" have more than 6 characters.
parseHex(v) ==
  CASE v.k = "hex" -> RgbRec(v.a, v.b, v.c)
    [] v.k \in {"raw", "named"} -> HexOfCharacters(Characters(v.text))
    [] OTHER -> NoParse

\* formatHSL(hsl, false)
formatHSL(hsl) == Triplet(hsl.h, hsl.s, hsl.l)

(***************************************************************************)
(* UnifiedThemeProvider.tsx: normalizeColorValueToHslTriplet               *)
(***************************************************************************)
\* Lines 106-117 (and 226-236 of the script): the normalizer sets style.color
\* of a probe element appended to the root and reads getComputedStyle of the
\* probe.  The browser takes a colour keyword and ignores a string that is
\* no colour, the empty string included; the probe then has the colour it
\* inherits from the root.  That colour belongs to the page: without an
\* author colour it is the system colour CanvasText, which follows the
\* color-scheme the code has set on the root (line 388, script line 90);
\* an author colour is serialised as rgb()/rgba() or, for a colour outside
\* sRGB, in its own notation (oklch(), color()), which the pattern of line
\* 117 does not match.
CanvasText(scheme) == IF scheme = "dark" THEN RgbRec(255, 255, 255) ELSE RgbRec(0, 0, 0)
AuthorColor == RgbRec(17, 34, 51)
Unserialised == [computed |-> "unserialised"]

\* No computed colour at all: there is no document (line 101) or a call of
\* the DOM threw (lines 126, script 243).
NoProbe == [computed |-> "none"]

\* What the probe may inherit on a root with the given color-scheme.
InheritedColors(scheme) == {CanvasText(scheme), AuthorColor, Unserialised}

\* What a caller may meet: the above for any color-scheme, or no probe.
ProbeEnvironments ==
  InheritedColors("light") \cup InheritedColors("dark") \cup {NoProbe}

\* The computed colour of the probe for a value.
ComputedColor(v, inherited) ==
  IF inherited = NoProbe THEN NoProbe
  ELSE IF v.k = "named" THEN RgbRec(v.a, v.b, v.c)
  ELSE inherited

\* Lines 95-131 for the results of parseHSL and parseHex on the value and
\* the computed colour of the probe: a value whose computed colour did not
\* match is returned as it is (line 131); the strings of the model have no
\* white space at their ends for trim to drop.
NormalizedFrom(v, parsedHsl, parsedRgb, computed) ==
  IF parsedHsl # NoParse THEN formatHSL(parsedHsl)
  ELSE IF parsedRgb = NoParse /\ (v.k = "var" \/ computed \in {Unserialised, NoProbe})
  THEN v
  ELSE formatHSL(rgbToHsl(IF parsedRgb # NoParse THEN parsedRgb ELSE computed))

normalizeColorValueToHslTriplet(v, inherited) ==
  NormalizedFrom(v, parseHSL(v), parseHex(v), ComputedColor(v, inherited))

(***************************************************************************)
(* UnifiedThemeScript.tsx: the inlined normalizer of the bootstrap script  *)
(***************************************************************************)
ScriptToTriplet(hsl) ==
  Triplet(Clamp(hsl.h, 0, 360), Clamp(hsl.s, 0, 100), Clamp(hsl.l, 0, 100))

\* Lines 206-246 for the channels the value has or the computed colour of
\* the probe; without a match the value is returned (line 247).
ScriptNormalizedFrom(v, rgb) ==
  IF rgb \in {Unserialised, NoProbe} THEN v
  ELSE ScriptToTriplet(rgbToHsl(RgbRec(Clamp(rgb.r, 0, 255), Clamp(rgb.g, 0, 255),
                                       Clamp(rgb.b, 0, 255))))

ScriptNormalizeColorValueToHslTriplet(v, inherited) ==
  IF ~Truthy(v) THEN v
  ELSE IF v.k = "var" THEN v
  ELSE IF v.k = "triplet" THEN v
  ELSE IF v.k = "hsl" THEN ScriptToTriplet(HslRec(v.a, v.b, v.c))
  ELSE ScriptNormalizedFrom(v, IF v.k \in {"rgb", "hex"} THEN RgbRec(v.a, v.b, v.c)
                               ELSE ComputedColor(v, inherited))

(***************************************************************************)
(* src/src/types/index.ts: CSS_PROPERTY_CATEGORIES                         *)
(***************************************************************************)
CSS_PROPERTY_CATEGORIES ==
  [colors |->
     {"background", "foreground", "card", "card-foreground", "popover",
      "popover-foreground", "primary", "primary-foreground", "secondary",
      "secondary-foreground", "muted", "muted-foreground", "accent",
      "accent-foreground", "destructive", "destructive-foreground", "border",
      "input", "ring", "chart-1", "chart-2", "chart-3", "chart-4", "chart-5",
      "sidebar", "sidebar-foreground", "sidebar-primary",
      "sidebar-primary-foreground", "sidebar-accent",
      "sidebar-accent-foreground", "sidebar-border", "sidebar-ring",
      "accent-info", "accent-info-foreground", "accent-success",
      "accent-success-foreground", "accent-warning",
      "accent-warning-foreground", "accent-danger", "accent-danger-foreground",
      "accent-brand", "accent-brand-foreground", "accent-feature",
      "accent-feature-foreground", "accent-highlight",
      "accent-highlight-foreground"},
   typography |-> {"font-sans", "font-serif", "font-mono"},
   layout |-> {"radius"},
   shadows |-> {"shadow-color", "shadow-opacity", "shadow-blur",
                "shadow-spread", "shadow-offset-x", "shadow-offset-y"},
   spacing |-> {"letter-spacing", "spacing"}]

ALL_CSS_PROPERTIES ==
  CSS_PROPERTY_CATEGORIES.colors \cup CSS_PROPERTY_CATEGORIES.typography
    \cup CSS_PROPERTY_CATEGORIES.layout \cup CSS_PROPERTY_CATEGORIES.shadows
    \cup CSS_PROPERTY_CATEGORIES.spacing

\* UnifiedThemeScript.tsx: CSS_CATEGORIES, the script's inline copy.
CSS_CATEGORIES ==
  [colors |->
     {"background", "foreground", "card", "card-foreground", "popover",
      "popover-foreground", "primary", "primary-foreground", "secondary",
      "secondary-foreground", "muted", "muted-foreground", "accent",
      "accent-foreground", "destructive", "destructive-foreground", "border",
      "input", "ring", "chart-1", "chart-2", "chart-3", "chart-4", "chart-5",
      "sidebar", "sidebar-foreground", "sidebar-primary",
      "sidebar-primary-foreground", "sidebar-accent",
      "sidebar-accent-foreground", "sidebar-border", "sidebar-ring",
      "accent-info", "accent-info-foreground", "accent-success",
      "accent-success-foreground", "accent-warning",
      "accent-warning-foreground", "accent-danger", "accent-danger-foreground",
      "accent-brand", "accent-brand-foreground", "accent-feature",
      "accent-feature-foreground", "accent-highlight",
      "accent-highlight-foreground"},
   typography |-> {"font-sans", "font-serif", "font-mono"},
   layout |-> {"radius"},
   shadows |-> {"shadow-color", "shadow-opacity", "shadow-blur",
                "shadow-spread", "shadow-offset-x", "shadow-offset-y"},
   spacing |-> {"letter-spacing", "spacing"}]

ScriptAllProperties ==
  CSS_CATEGORIES.colors \cup CSS_CATEGORIES.typography \cup CSS_CATEGORIES.layout
    \cup CSS_CATEGORIES.shadows \cup CSS_CATEGORIES.spacing

fontProperties == {"font-sans", "font-serif", "font-mono"}

\* defaultValues of applyPresetColors and of applyPresetProperties.
defaultValues == ("spacing" :> Raw("0.25rem")) @@ ("letter-spacing" :> Raw("normal"))

Modes == {"light", "dark"}
otherMode(m) == IF m = "light" THEN "dark" ELSE "light"

\* An empty property map, and colors[prop] with undefined as "".
EmptyMap == [p \in {} |-> EmptyString]
Lookup(colors, prop) == IF prop \in DOMAIN colors THEN colors[prop] ELSE EmptyString

(***************************************************************************)
(* Preset data.  The built-in collection (src/data/tweakcn-presets) is not *)
(* part of the sources at hand; it is a record keyed by preset id whose    *)
(* entries have a label and styles.light / styles.dark, and getPresetById  *)
(* looks an id up in it.                                                   *)
(***************************************************************************)
Undefined == [undefined |-> TRUE]

REQUIRED_PROPERTIES ==
  <<"background", "foreground", "primary", "primary-foreground", "secondary",
    "secondary-foreground", "card", "card-foreground">>

RECOMMENDED_PROPERTIES ==
  <<"border", "input", "ring", "muted", "muted-foreground", "accent",
    "accent-foreground", "destructive", "destructive-foreground", "popover",
    "popover-foreground">>

RequiredFilled(v) == [p \in {REQUIRED_PROPERTIES[i] : i \in 1..Len(REQUIRED_PROPERTIES)} |-> v]

tweakcnPresets ==
  ("modern-minimal" :>
     [label |-> "Modern Minimal",
      styles |->
        [light |-> ("background" :> Hex(255, 255, 255)) @@
                   ("primary" :> Rgb(37, 99, 235)) @@
                   ("font-sans" :> Raw("Inter")) @@
                   ("radius" :> Raw("0.5rem")),
         dark |-> ("background" :> Triplet(222, 47, 11)) @@
                  ("primary" :> Hex(96, 165, 250)) @@
                  ("shadow-color" :> Hsl(0, 0, 0))]]) @@
  ("violet-bloom" :>
     [label |-> "Violet Bloom",
      styles |->
        [light |-> ("background" :> Named("white", 255, 255, 255)) @@
                   ("accent" :> Hex(124, 58, 237)) @@
                   ("spacing" :> Raw("0.3rem")),
         dark |-> ("background" :> Hex(10, 10, 10)) @@
                  ("font-mono" :> Raw("JetBrains Mono"))]])

getPresetById(id) ==
  IF id \in DOMAIN tweakcnPresets THEN tweakcnPresets[id] ELSE Undefined

\* Custom collections a caller may pass as the customPresets prop, as the
\* sequence of their entries (Object.entries order).
BrandPreset ==
  [label |-> "Brand",
   styles |-> [light |-> RequiredFilled(Hex(17, 34, 51)) @@ ("font-serif" :> Raw("Georgia")),
               dark |-> RequiredFilled(Triplet(210, 40, 98))]]

MyMinimalPreset ==
  [label |-> "My Minimal",
   styles |-> [light |-> RequiredFilled(Hsl(0, 0, 100)),
               dark |-> RequiredFilled(Hex(0, 0, 0)) @@ ("radius" :> Raw("1rem"))]]

BrokenPreset == [label |-> "Broken", styles |-> Undefined]

CustomCollections ==
  [none |-> <<>>,
   valid |-> << <<"brand", BrandPreset>>, <<"modern-minimal", MyMinimalPreset>> >>,
   invalid |-> << <<"brand", BrandPreset>>, <<"broken", BrokenPreset>> >>]

CustomCollectionNames == {"none", "valid", "invalid"}

CollectionKeys(coll) == {coll[i][1] : i \in 1..Len(coll)}
CollectionEntry(coll, id) ==
  (CHOOSE i \in 1..Len(coll) :
     coll[i][1] = id /\ \A j \in (i + 1)..Len(coll) : coll[j][1] # id)
CollectionGet(coll, id) == coll[CollectionEntry(coll, id)][2]

\* The style maps of the preset that a caller passes to applyPreset and that
\* an earlier session stored.
SunsetStyles ==
  [light |-> ("background" :> Hex(255, 247, 237)) @@ ("primary" :> Hex(234, 88, 12)) @@
             ("font-mono" :> Raw("Fira Code")),
   dark |-> ("background" :> Triplet(20, 14, 4)) @@ ("primary" :> Hsl(21, 90, 48)) @@
            ("radius" :> Raw("0.75rem"))]

(***************************************************************************)
(* UnifiedThemeProvider.tsx: applyPresetColors, the Property Applicator.   *)
(* preset is the pair [light |-> map, dark |-> map] (ThemePreset.colors).  *)
(***************************************************************************)
isColorProperty(prop) ==
  prop \in CSS_PROPERTY_CATEGORIES.colors \/ prop = "shadow-color"

\* The values that the model's presets give to colour properties.
PresetStyleMaps ==
  {tweakcnPresets[id].styles[m] : id \in DOMAIN tweakcnPresets, m \in Modes}
    \cup {preset.styles[m] : preset \in {BrandPreset, MyMinimalPreset}, m \in Modes}
    \cup {SunsetStyles[m] : m \in Modes}
PresetColorValues ==
  UNION {{colors[p] : p \in {q \in DOMAIN colors : isColorProperty(q)}} :
           colors \in PresetStyleMaps}

\* The normalizer is a function of the value and of the colour the probe
\* inherits: its results for the values of the model's presets, computed
\* once.
NormalizedPresetColors ==
  [inherited \in ProbeEnvironments |->
     [v \in PresetColorValues |-> normalizeColorValueToHslTriplet(v, inherited)]]

\* Line 452: normalizeColorValueToHslTriplet(value) in the applicator.
NormalizedColor(v, inherited) ==
  IF inherited \in DOMAIN NormalizedPresetColors
       /\ v \in DOMAIN NormalizedPresetColors[inherited]
  THEN NormalizedPresetColors[inherited][v]
  ELSE normalizeColorValueToHslTriplet(v, inherited)

\* Lines 424-436: a font missing from the mode's map ("in" test) is written
\* into that map from the other mode's map.  The map is changed in place.
InheritFonts(colors, otherModeColors) ==
  colors @@ [f \in {g \in fontProperties :
                      g \notin DOMAIN colors /\ g \in DOMAIN otherModeColors} |->
               otherModeColors[f]]

\* Lines 441-448: the value of the map, else the default for the property.
ResolvedValue(colors, prop) ==
  LET value == Lookup(colors, prop)
  IN IF ~Truthy(value) /\ prop \in DOMAIN defaultValues
     THEN defaultValues[prop] ELSE value

\* Lines 441-461: the custom properties written for a (patched) mode map.
\* Of the properties the loop visits, one that neither the map nor the
\* defaults name has no value and is passed over (line 450).
WrittenProperties(colors, inherited) ==
  [p \in {q \in DOMAIN colors \cup DOMAIN defaultValues :
             q \in ALL_CSS_PROPERTIES /\ Truthy(ResolvedValue(colors, q))} |->
     IF isColorProperty(p)
     THEN NormalizedColor(ResolvedValue(colors, p), inherited)
     ELSE ResolvedValue(colors, p)]

\* root.style after removing a set of custom properties and setting others.
RemoveProperties(vars, names) == [p \in DOMAIN vars \ names |-> vars[p]]
SetProperties(vars, written) == written @@ vars

\* An applicator that returns after the clearing when it found properties
\* of the fixed set to clear.
applyPresetColors_ClearOrWrite(preset, m, vars, inherited) ==
  IF m \notin Modes THEN [vars |-> vars, preset |-> preset]
  ELSE IF DOMAIN vars \cap ALL_CSS_PROPERTIES # {}
       THEN [vars |-> RemoveProperties(vars, ALL_CSS_PROPERTIES), preset |-> preset]
  ELSE LET colors == InheritFonts(preset[m], preset[otherMode(m)])
       IN [vars |-> SetProperties(RemoveProperties(vars, ALL_CSS_PROPERTIES),
                                  WrittenProperties(colors, inherited)),
           preset |-> [preset EXCEPT ![m] = colors]]

\* applyPresetColors(preset, mode) on a root carrying the custom properties
\* vars: the new custom properties and the preset as the call leaves it.
\* preset[mode] is undefined for a mode other than light and dark, and the
\* call then returns before touching anything (line 398).
applyPresetColors(preset, m, vars, inherited) ==
  IF m \notin Modes THEN [vars |-> vars, preset |-> preset]
  ELSE LET colors == InheritFonts(preset[m], preset[otherMode(m)])
       IN [vars |-> SetProperties(RemoveProperties(vars, ALL_CSS_PROPERTIES),
                                  WrittenProperties(colors, inherited)),
           preset |-> [preset EXCEPT ![m] = colors]]

(***************************************************************************)
(* UnifiedThemeScript.tsx: applyPresetProperties and the font patch of the *)
(* preset restoration (lines 251-305, 330-345).                            *)
(***************************************************************************)
ScriptInheritFonts(colors, otherModeColors) ==
  LET inherited == {f \in fontProperties :
                      ~Truthy(Lookup(colors, f)) /\ Truthy(Lookup(otherModeColors, f))}
  IN [p \in DOMAIN colors \cup inherited |->
        IF p \in inherited THEN otherModeColors[p] ELSE colors[p]]

ScriptResolvedValue(colors, prop) ==
  LET value == Lookup(colors, prop)
  IN IF ~Truthy(value) /\ prop \in DOMAIN defaultValues
     THEN defaultValues[prop] ELSE value

applyPresetProperties(colors, vars, inherited) ==
  LET written ==
        [p \in {q \in DOMAIN colors \cup DOMAIN defaultValues :
                   q \in ScriptAllProperties /\ Truthy(ScriptResolvedValue(colors, q))} |->
           IF p \in CSS_CATEGORIES.colors \/ p = "shadow-color"
           THEN ScriptNormalizeColorValueToHslTriplet(ScriptResolvedValue(colors, p),
                                                      inherited)
           ELSE ScriptResolvedValue(colors, p)]
  IN SetProperties(RemoveProperties(vars, ScriptAllProperties), written)

(***************************************************************************)
(* src/src/utils/preset-validation.ts                                      *)
(* Messages are modelled as tuples: the kind of message and its arguments. *)
(***************************************************************************)
\* A trim that keeps whitespace.
Trim_None(str) == str

\* String.prototype.trim on the labels and ids of the model.
Trim(str) == IF str \in {"", " ", "  "} THEN "" ELSE str

\* /^[a-z0-9-_]+$/ on the ids of the model.
IdPattern(id) == id \in {"brand", "broken", "modern-minimal", "violet-bloom", "sunset"}

\* isValidColorValue: every branch, the last line included, returns true.
isValidColorValue(v) ==
  \/ v.k = "hex"
  \/ v.k = "hsl"
  \/ v.k = "rgb"
  \/ v.k = "var"
  \/ v.k = "named"
  \/ TRUE

SeqOfSet(S) ==
  LET RECURSIVE build(_)
      build(T) == IF T = {} THEN <<>>
                  ELSE LET x == CHOOSE y \in T : TRUE
                       IN <<x>> \o build(T \ {x})
  IN build(S)

\* A check of the required properties that stops at the first one missing.
ModeErrors_FirstOnly(prefix, m, modeStyles) ==
  IF modeStyles = Undefined THEN << <<"mode-styles", prefix, m>> >>
  ELSE LET all == SelectSeq([i \in 1..Len(REQUIRED_PROPERTIES) |->
                               <<"required", prefix, m, REQUIRED_PROPERTIES[i]>>],
                            LAMBDA e : ~Truthy(Lookup(modeStyles, e[4])))
       IN IF all = <<>> THEN <<>> ELSE <<all[1]>>

\* Lines 90-102: the errors of one mode.
ModeErrors(prefix, m, modeStyles) ==
  IF modeStyles = Undefined THEN << <<"mode-styles", prefix, m>> >>
  ELSE SelectSeq([i \in 1..Len(REQUIRED_PROPERTIES) |->
                    <<"required", prefix, m, REQUIRED_PROPERTIES[i]>>],
                 LAMBDA e : ~Truthy(Lookup(modeStyles, e[4])))

ModeWarnings(prefix, m, modeStyles) ==
  IF modeStyles = Undefined THEN <<>>
  ELSE SelectSeq([i \in 1..Len(RECOMMENDED_PROPERTIES) |->
                    <<"recommended", prefix, m, RECOMMENDED_PROPERTIES[i]>>],
                 LAMBDA e : ~Truthy(Lookup(modeStyles, e[4])))
       \o SelectSeq([i \in 1..Cardinality(DOMAIN modeStyles) |->
                       <<"color", prefix, m, SeqOfSet(DOMAIN modeStyles)[i]>>],
                    LAMBDA e : /\ Truthy(modeStyles[e[4]])
                               /\ ~isValidColorValue(modeStyles[e[4]]))

\* A result that warnings make invalid as well.
ValidationResult_WarningsCount(errors, warnings) ==
  [isValid |-> Len(errors) = 0 /\ Len(warnings) = 0, errors |-> errors,
   warnings |-> warnings]

\* Lines 121-125, 162-166: the returned result.
ValidationResult(errors, warnings) ==
  [isValid |-> Len(errors) = 0, errors |-> errors, warnings |-> warnings]

validateTweakCNPreset(preset, presetId) ==
  IF preset = Undefined
  THEN [isValid |-> FALSE, errors |-> << <<"object", presetId>> >>, warnings |-> <<>>]
  ELSE LET labelErrors == IF Trim(preset.label) = ""
                          THEN << <<"label", presetId>> >> ELSE <<>>
       IN IF preset.styles = Undefined
          THEN [isValid |-> FALSE,
                errors |-> labelErrors \o << <<"styles", presetId>> >>,
                warnings |-> <<>>]
          ELSE ValidationResult(
                 labelErrors \o ModeErrors(presetId, "light", preset.styles.light)
                             \o ModeErrors(presetId, "dark", preset.styles.dark),
                 ModeWarnings(presetId, "light", preset.styles.light)
                   \o ModeWarnings(presetId, "dark", preset.styles.dark))

RECURSIVE validateEntries(_, _)
validateEntries(coll, i) ==
  IF i > Len(coll) THEN [errors |-> <<>>, warnings |-> <<>>]
  ELSE LET id == coll[i][1]
           rest == validateEntries(coll, i + 1)
       IN IF Trim(id) = ""
          THEN [errors |-> << <<"id">> >> \o rest.errors, warnings |-> rest.warnings]
          ELSE LET result == validateTweakCNPreset(coll[i][2], id)
                   idWarnings == IF IdPattern(id) THEN <<>> ELSE << <<"id-pattern", id>> >>
               IN [errors |-> result.errors \o rest.errors,
                   warnings |-> idWarnings \o result.warnings \o rest.warnings]

\* A validation that reports the errors as warnings.
validateCustomPresets_Lenient(coll) ==
  LET all == validateEntries(coll, 1)
  IN ValidationResult(<<>>, all.errors \o all.warnings)

\* Lines 133-167: validateCustomPresets
validateCustomPresets(coll) ==
  LET all == validateEntries(coll, 1)
  IN ValidationResult(all.errors, all.warnings)

(***************************************************************************)
(* UnifiedThemeProvider.tsx: availablePresets, getAvailablePresetById.     *)
(* A registry entry is the label and a reference to the preset object,     *)
(* whose style maps live in the heap (they are shared, mutable objects).   *)
(***************************************************************************)
BuiltInRef(id) == <<"builtin", id>>
CustomRef(id) == <<"custom", id>>
NoRef == <<"none", "">>

\* A merge in which a built-in preset keeps its id.
availablePresets_BuiltInWins(coll) ==
  LET builtIn == [id \in DOMAIN tweakcnPresets |->
                    [label |-> tweakcnPresets[id].label, ref |-> BuiltInRef(id)]]
      validationResult == validateCustomPresets(coll)
      custom == [id \in CollectionKeys(coll) |->
                   [label |-> CollectionGet(coll, id).label, ref |-> CustomRef(id)]]
  IN IF Len(coll) > 0 /\ (validationResult.isValid \/ Len(validationResult.errors) = 0)
     THEN builtIn @@ custom
     ELSE builtIn

\* Lines 243-272: availablePresets
availablePresets(coll) ==
  LET builtIn == [id \in DOMAIN tweakcnPresets |->
                    [label |-> tweakcnPresets[id].label, ref |-> BuiltInRef(id)]]
      validationResult == validateCustomPresets(coll)
      custom == [id \in CollectionKeys(coll) |->
                   [label |-> CollectionGet(coll, id).label, ref |-> CustomRef(id)]]
  IN IF Len(coll) > 0 /\ (validationResult.isValid \/ Len(validationResult.errors) = 0)
     THEN custom @@ builtIn
     ELSE builtIn

\* The registry is a plain object (line 244): reading a name that is not a
\* key of its own finds what Object.prototype has under that name, a
\* function or an object, which is truthy and has no label and no styles.
ObjectPrototypeNames ==
  {"constructor", "toString", "toLocaleString", "valueOf", "hasOwnProperty",
   "isPrototypeOf", "propertyIsEnumerable", "__proto__", "__defineGetter__",
   "__defineSetter__", "__lookupGetter__", "__lookupSetter__"}
Inherited(name) == [inherited |-> name]

\* Reading preset.styles.light of a value without styles (lines 303, 558, 586).
TypeError == [raised |-> "TypeError"]

\* Line 243 and 272: useMemo computes the registry once for a collection.
MemoizedAvailablePresets ==
  [coll \in {CustomCollections[name] : name \in DOMAIN CustomCollections} |->
     availablePresets(coll)]

\* Lines 277-282: getAvailablePresetById
getAvailablePresetById(coll, id) ==
  IF id \in DOMAIN MemoizedAvailablePresets[coll] THEN MemoizedAvailablePresets[coll][id]
  ELSE IF id \in ObjectPrototypeNames THEN Inherited(id)
  ELSE Undefined

\* The preset objects of a run: the built-in ones and those of the custom
\* collection that have styles for both modes.
HeapRefs(coll) ==
  {BuiltInRef(id) : id \in DOMAIN tweakcnPresets} \cup
  {CustomRef(id) : id \in {k \in CollectionKeys(coll) :
                             /\ CollectionGet(coll, k) # Undefined
                             /\ CollectionGet(coll, k).styles # Undefined}}

InitialStyles(coll, ref) ==
  IF ref[1] = "builtin" THEN tweakcnPresets[ref[2]].styles
  ELSE CollectionGet(coll, ref[2]).styles

(***************************************************************************)
(* State.                                                                  *)
(***************************************************************************)
VARIABLES
  cfg,            \* props of ThemeProvider: defaultMode, defaultPreset, customPresets
  serverRendered, \* the markup, the script tag included, was rendered on the server
  storageFault,   \* "ok", "full" (setItem throws for the preset: quota exceeded),
                  \* "readonly" (every setItem throws), "denied" (every access throws)
  modeSlot,       \* localStorage[modeStorageKey]
  presetSlot,     \* localStorage[presetStorageKey]
  prefersDark,    \* matchMedia("(prefers-color-scheme: dark)").matches
  phase,          \* "load" (document loaded), "boot" (script has run), "mounted"
  mode,           \* useState: mode
  resolvedMode,   \* useState: resolvedMode
  currentPreset,  \* useState: currentPreset
  queue,          \* state updates requested since the last render
  pending,        \* effects scheduled by the last render and not yet run
  flushing,       \* TRUE while the scheduled effects are being run
  listeners,      \* number of registered "change" listeners on the media query
  hasCleanup,     \* the resolve-mode effect returned a cleanup function
  transitions,    \* callbacks handed to document.startViewTransition, not yet run
  rootClasses,    \* document.documentElement.classList
  colorScheme,    \* document.documentElement.style.colorScheme
  dataset,        \* document.documentElement.dataset (themeEngine* entries)
  cssVars,        \* custom properties of document.documentElement.style
  heap,           \* style maps of the preset objects, by reference
  now,            \* Date.now()
  history,        \* the two latest operations and environment events, oldest first
  atLoad,         \* the storage slots as they were when the document was loaded
  bootDom,        \* what the bootstrap script left on the root
  candidate,      \* a custom collection that a caller hands to the validator
  validation,     \* the call of the validator made last and what it returned
  probe,          \* arguments that a caller hands to the normalizer or an applicator
  outcome         \* the calls made on the probe so far and what the last one left

vars == <<cfg, serverRendered, storageFault, modeSlot, presetSlot, prefersDark, phase, mode,
          resolvedMode, currentPreset, queue, pending, flushing, listeners,
          hasCleanup, transitions, rootClasses, colorScheme, dataset, cssVars,
          heap, now, history, atLoad, bootDom, candidate, validation, probe,
          outcome>>

configVars == <<cfg, serverRendered, storageFault>>
validatorVars == <<candidate, validation>>
harnessVars == <<candidate, validation, probe, outcome>>
domVars == <<rootClasses, colorScheme, dataset, cssVars>>

(***************************************************************************)
(* Values of the state.                                                    *)
(***************************************************************************)
ModeValues == {"light", "dark", "system"}

Absent == [t |-> "absent", s |-> "", v |-> Undefined]
Str(s) == [t |-> "str", s |-> s, v |-> Undefined]
Garbage == [t |-> "garbage", s |-> "", v |-> Undefined]
Json(v) == [t |-> "json", s |-> "", v |-> v]

JsonNull == [j |-> "null"]
JsonObject(presetId, presetName, colors, appliedAt) ==
  [j |-> "object", presetId |-> presetId, presetName |-> presetName,
   colors |-> colors, appliedAt |-> appliedAt]

Null == [null |-> TRUE]
PresetState(presetId, presetName, colors, appliedAt, ref) ==
  [presetId |-> presetId, presetName |-> presetName, colors |-> colors,
   appliedAt |-> appliedAt, ref |-> ref]

NoColors == [light |-> EmptyMap, dark |-> EmptyMap]

\* The colors object of a preset state: its own maps when it was parsed
\* from storage, else the style maps of the preset object it refers to.
ColorsIn(h, cp) == IF cp.ref = NoRef THEN cp.colors ELSE h[cp.ref]
ColorsOf(cp) == ColorsIn(heap, cp)

NoUpdate == [none |-> TRUE]
Update(v) == [v |-> v]
EmptyQueue == [mode |-> NoUpdate, resolvedMode |-> NoUpdate, currentPreset |-> NoUpdate]

Effects == <<"loadMode", "loadPreset", "resolveMode", "applyMode", "applyPreset">>
EffectSet == {Effects[i] : i \in 1..Len(Effects)}
EffectIndex == [e \in EffectSet |-> CHOOSE i \in 1..Len(Effects) : Effects[i] = e]
\* Effects run in the order of their declaration.
NextEffect(e) == e \in pending /\ \A f \in pending : EffectIndex[e] <= EffectIndex[f]

\* A preset a caller passes to applyPreset: its own object (a "user" preset)
\* or one the picker widget builds from a registry entry.
UserRef(id) == <<"user", id>>

\* A state persisted by an earlier session.
StoredSunset == JsonObject("sunset", "Sunset", SunsetStyles, 0)
StoredNoColors == JsonObject("sunset", "Sunset", Undefined, 0)
StoredLightOnly ==
  JsonObject("sunset", "Sunset", [light |-> SunsetStyles.light, dark |-> Undefined], 0)

ModeSlotValues == {Absent, Str("light"), Str("dark"), Str("system"), Str("sepia"), Str("")}
PresetSlotValues ==
  {Absent, Str(""), Garbage, Json(JsonNull), Json(StoredNoColors), Json(StoredLightOnly),
   Json(StoredSunset)}

\* The configurations of the model: every default mode, with no default
\* preset, a built-in one, a built-in id that a custom preset overrides, a
\* custom one (accepted, and in a rejected collection) and an unknown id.
PresetConfigs ==
  {<<"", "none">>, <<"modern-minimal", "none">>, <<"modern-minimal", "valid">>,
   <<"brand", "valid">>, <<"brand", "invalid">>, <<"missing", "none">>}

Configs ==
  {[defaultMode |-> m, defaultPreset |-> pc[1], customPresets |-> pc[2]] :
     m \in ModeValues, pc \in PresetConfigs}

Collection == CustomCollections[cfg.customPresets]

(***************************************************************************)
(* Storage access: localStorage.getItem / setItem / removeItem.            *)
(***************************************************************************)
CanRead == storageFault # "denied"
CanWrite == storageFault = "ok"
CanWriteMode == storageFault \in {"ok", "full"}
CanRemove_Never == FALSE
CanRemove == storageFault # "denied"

\* getStoredMode: the stored string, or null (the empty set) when the slot
\* is absent, holds "" or cannot be read.  The string is not validated.
getStoredMode ==
  IF ~CanRead THEN {}
  ELSE IF modeSlot.t = "absent" THEN {}
  ELSE IF modeSlot.s = "" THEN {}
  ELSE {modeSlot.s}

\* A setStoredMode that loses the write.
setStoredMode_Lost(m) == modeSlot

\* Lines 83-89: setStoredMode, as the slot it leaves.
setStoredMode(m) == IF CanWriteMode THEN Str(m) ELSE modeSlot

\* A getSystemTheme that never probes the media query.
getSystemTheme_Light == "light"

\* Lines 69-72: getSystemTheme
getSystemTheme == IF prefersDark THEN "dark" ELSE "light"
getSystemThemeAfter(dark) == IF dark THEN "dark" ELSE "light"

\* JSON.stringify(presetData) / JSON.parse(stored)
\* A save that keeps an entry that is already stored.
Serialize_KeepExisting(h, cp) ==
  IF presetSlot.t = "json" THEN presetSlot
  ELSE Json(JsonObject(cp.presetId, cp.presetName, ColorsIn(h, cp), cp.appliedAt))

Serialize(h, cp) ==
  Json(JsonObject(cp.presetId, cp.presetName, ColorsIn(h, cp), cp.appliedAt))

\* First-render values of the state hooks.
InitialMode(defaultMode) == defaultMode
\* A first render that treats system as dark.
InitialResolvedMode_SystemDark(defaultMode) ==
  IF defaultMode = "light" THEN "light" ELSE "dark"

InitialResolvedMode(defaultMode) == IF defaultMode = "dark" THEN "dark" ELSE "light"

InitialHeap(coll) ==
  [ref \in HeapRefs(coll) \cup {UserRef("sunset")} |->
     IF ref = UserRef("sunset") THEN SunsetStyles ELSE InitialStyles(coll, ref)]

NoBootDom ==
  [ran |-> FALSE, rootClasses |-> {}, colorScheme |-> "", cssVars |-> EmptyMap,
   escaped |-> FALSE]

\* No call of the validator has been made.
NotValidated == [call |-> "none", index |-> 0, result |-> Undefined]

\* No call has been made on the probe.
NotCalled == [by |-> "none", calls |-> 0, value |-> Undefined, first |-> Undefined]

\* The state of a freshly loaded document before any script has run; the
\* state hooks hold their first-render values.
FirstRender ==
  /\ cfg \in Configs
  /\ prefersDark \in BOOLEAN
  /\ phase = "load"
  /\ mode = InitialMode(cfg.defaultMode)
  /\ resolvedMode = InitialResolvedMode(cfg.defaultMode)
  /\ currentPreset = Null
  /\ queue = EmptyQueue
  /\ pending = {}
  /\ flushing = FALSE
  /\ listeners = 0
  /\ hasCleanup = FALSE
  /\ transitions = <<>>
  /\ rootClasses = {}
  /\ colorScheme = ""
  /\ dataset = [themeEngineMode |-> "", themeEngineResolvedMode |-> ""]
  /\ cssVars = EmptyMap
  /\ heap = InitialHeap(CustomCollections[cfg.customPresets])
  /\ now = 1
  /\ history = <<>>
  /\ bootDom = NoBootDom
  /\ validation = NotValidated
  /\ outcome = NotCalled

\* The configurations of a first visit: no default preset, a built-in
\* default that a custom preset overrides, and a default that is not in the
\* registry because its collection is rejected.
FirstVisitPresetConfigs ==
  {<<"", "none">>, <<"modern-minimal", "valid">>, <<"brand", "invalid">>}

\* A first visit: nothing has been persisted yet.
Init ==
  /\ FirstRender
  /\ candidate = <<>>
  /\ probe = Undefined
  /\ <<cfg.defaultPreset, cfg.customPresets>> \in FirstVisitPresetConfigs
  /\ serverRendered = TRUE
  /\ storageFault = "ok"
  /\ modeSlot = Absent
  /\ presetSlot = Absent
  /\ atLoad = [modeSlot |-> modeSlot, presetSlot |-> presetSlot]

\* A visit over storage left by anyone: every content of the two slots.
InitStored ==
  /\ FirstRender
  /\ candidate = <<>>
  /\ probe = Undefined
  /\ serverRendered \in BOOLEAN
  /\ storageFault \in {"ok", "denied"}
  /\ modeSlot \in ModeSlotValues
  /\ presetSlot \in PresetSlotValues
  /\ (storageFault = "denied" => modeSlot = Absent /\ presetSlot = Absent)
  /\ atLoad = [modeSlot |-> modeSlot, presetSlot |-> presetSlot]

(***************************************************************************)
(* UnifiedThemeScript.tsx: the bootstrap script (lines 56-351).            *)
(***************************************************************************)
\* Lines 41-51: the data of the default preset, looked up among the
\* built-in presets only and serialized into the script.
defaultPresetData ==
  IF cfg.defaultPreset = "" THEN Undefined
  ELSE LET preset == getPresetById(cfg.defaultPreset)
       IN IF preset = Undefined THEN Undefined
          ELSE JsonObject(cfg.defaultPreset, preset.label, preset.styles, 0)

\* Lines 70-100: mode restoration.
ScriptMode ==
  LET storedMode == IF CanRead /\ modeSlot.t = "str" THEN {modeSlot.s} ELSE {}
      isValidMode == storedMode # {} /\ storedMode \subseteq ModeValues
  IN IF isValidMode THEN CHOOSE m \in storedMode : TRUE ELSE cfg.defaultMode

ScriptResolvedMode == IF ScriptMode = "system" THEN getSystemTheme ELSE ScriptMode

\* Lines 307-322: the preset to apply; Undefined stands for a falsy value.
ScriptPresetToApply ==
  LET parsed == IF presetSlot.t = "json" /\ presetSlot.v.j = "object"
                THEN presetSlot.v ELSE Undefined
  IN IF parsed = Undefined /\ defaultPresetData # Undefined
     THEN defaultPresetData ELSE parsed

\* Lines 324-346: the custom properties after preset restoration, where a
\* probe inherits the given colour.
ScriptCssVars(classesAfter, datasetAfter, inherited) ==
  LET presetToApply == ScriptPresetToApply
      resolved == IF datasetAfter.themeEngineResolvedMode # ""
                  THEN datasetAfter.themeEngineResolvedMode
                  ELSE IF "dark" \in classesAfter THEN "dark" ELSE "light"
      m == IF resolved = "dark" THEN "dark" ELSE "light"
      colors == IF presetToApply = Undefined THEN Undefined
                ELSE IF presetToApply.colors = Undefined THEN Undefined
                ELSE presetToApply.colors[m]
      otherModeColors == IF colors = Undefined THEN Undefined
                         ELSE presetToApply.colors[otherMode(m)]
  IN IF ~CanRead THEN cssVars
     ELSE IF colors = Undefined THEN cssVars
     ELSE IF otherModeColors = Undefined
          THEN applyPresetProperties(colors, cssVars, inherited)
     ELSE applyPresetProperties(ScriptInheritFonts(colors, otherModeColors), cssVars,
                                inherited)

\* Lines 59-60, 307-308: the outer try block is left by an exception.  The
\* read of the mode slot has a try of its own (lines 74-76); the read of the
\* preset slot has none.
ScriptOuterTryThrows == ~CanRead

\* Lines 348-350: the handler of the outer try tests isDev, a const declared
\* inside the try block (line 63) and not in scope in the handler: the test
\* raises a ReferenceError that leaves the script.
ScriptExceptionEscapes == ScriptOuterTryThrows

\* The script runs while the server-rendered markup is parsed; a script tag
\* that React inserts on the client is not executed.
BootstrapScript ==
  /\ serverRendered
  /\ phase = "load"
  /\ phase' = "boot"
  /\ rootClasses' = (rootClasses \ {"light", "dark"}) \cup {ScriptResolvedMode}
  /\ colorScheme' = ScriptResolvedMode
  /\ dataset' = [themeEngineMode |-> ScriptMode,
                 themeEngineResolvedMode |-> ScriptResolvedMode]
  /\ \E inherited \in InheritedColors(colorScheme') :
       cssVars' = ScriptCssVars(rootClasses', dataset', inherited)
  /\ bootDom' = [ran |-> TRUE, rootClasses |-> rootClasses',
                 colorScheme |-> colorScheme', cssVars |-> cssVars',
                 escaped |-> ScriptExceptionEscapes]
  /\ UNCHANGED <<configVars, harnessVars, modeSlot, presetSlot, prefersDark, mode, resolvedMode,
                 currentPreset, queue, pending, flushing, listeners, hasCleanup,
                 transitions, heap, now, history, atLoad>>

(***************************************************************************)
(* UnifiedThemeProvider.tsx: mount and the five effects.                   *)
(***************************************************************************)
\* The provider mounts (hydrates): the first render has happened with the
\* initial state and every effect is scheduled.
Mount ==
  /\ phase = (IF serverRendered THEN "boot" ELSE "load")
  /\ phase' = "mounted"
  /\ pending' = EffectSet
  /\ UNCHANGED <<configVars, harnessVars, modeSlot, presetSlot, prefersDark, mode, resolvedMode,
                 currentPreset, queue, flushing, listeners, hasCleanup, transitions,
                 domVars, heap, now, history, atLoad, bootDom>>

\* Bookkeeping shared by the effects: e has run.
\* An effect that stays scheduled after it has run.
EffectDone_Repeating(e) ==
  /\ phase = "mounted"
  /\ NextEffect(e)
  /\ pending' = pending
  /\ flushing' = TRUE

EffectDone(e) ==
  /\ phase = "mounted"
  /\ NextEffect(e)
  /\ pending' = pending \ {e}
  /\ flushing' = (pending' # {})

\* Lines 236-240: load persisted mode after hydration.
LoadPersistedModeEffect ==
  /\ EffectDone("loadMode")
  /\ queue' = IF getStoredMode # {}
              THEN [queue EXCEPT !.mode = Update(CHOOSE m \in getStoredMode : TRUE)]
              ELSE queue
  /\ UNCHANGED <<configVars, harnessVars, modeSlot, presetSlot, prefersDark, phase, mode,
                 resolvedMode, currentPreset, listeners, hasCleanup, transitions,
                 domVars, heap, now, history, atLoad, bootDom>>

\* Lines 295-313: applyDefaultPreset, as the update it requests (if any).
applyDefaultPreset(q) ==
  IF cfg.defaultPreset = "" THEN q
  ELSE LET preset == getAvailablePresetById(Collection, cfg.defaultPreset)
       IN IF preset = Undefined \/ preset = Inherited(cfg.defaultPreset) THEN q
          ELSE [q EXCEPT !.currentPreset =
                  Update(PresetState(cfg.defaultPreset, preset.label, NoColors, now,
                                     preset.ref))]

\* Lines 319-326: the shape test on the parsed value.
hasColors(parsed) ==
  /\ parsed.j = "object"
  /\ parsed.colors # Undefined
  /\ parsed.colors.light # Undefined
  /\ parsed.colors.dark # Undefined

\* Lines 288-357: load persisted preset on mount.
LoadPersistedPresetEffect ==
  /\ EffectDone("loadPreset")
  /\ IF ~CanRead
     THEN \* getItem throws: the outer catch ends the effect
          UNCHANGED <<queue, presetSlot>>
     ELSE IF presetSlot.t = "absent" \/ (presetSlot.t = "str" /\ presetSlot.s = "")
     THEN \* no stored preset
          /\ queue' = applyDefaultPreset(queue)
          /\ UNCHANGED presetSlot
     ELSE IF presetSlot.t = "json" /\ hasColors(presetSlot.v)
     THEN /\ queue' = [queue EXCEPT !.currentPreset =
                         Update(PresetState(presetSlot.v.presetId, presetSlot.v.presetName,
                                            presetSlot.v.colors, presetSlot.v.appliedAt,
                                            NoRef))]
          /\ UNCHANGED presetSlot
     ELSE \* parse failure or invalid shape: clear the key and fall back
          /\ presetSlot' = Absent
          /\ queue' = applyDefaultPreset(queue)
  /\ UNCHANGED <<configVars, harnessVars, modeSlot, prefersDark, phase, mode, resolvedMode,
                 currentPreset, listeners, hasCleanup, transitions, domVars, heap,
                 now, history, atLoad, bootDom>>

\* A cleanup that leaves the listener registered.
ListenersAfterCleanup_Kept == listeners

\* Line 368: the cleanup the resolve-mode effect returned in system mode
\* removes the listener that run registered; the other branch (line 371)
\* returns none.
ListenersAfterCleanup == IF hasCleanup THEN listeners - 1 ELSE listeners

\* Lines 360-373: update resolved mode when mode changes; the cleanup of
\* the previous run (if it returned one) removes its listener first.
ResolveModeEffect ==
  /\ EffectDone("resolveMode")
  /\ LET remaining == ListenersAfterCleanup
     IN IF mode = "system"
        THEN /\ queue' = [queue EXCEPT !.resolvedMode = Update(getSystemTheme)]
             /\ listeners' = remaining + 1
             /\ hasCleanup' = TRUE
        ELSE /\ queue' = [queue EXCEPT !.resolvedMode = Update(mode)]
             /\ listeners' = remaining
             /\ hasCleanup' = FALSE
  /\ UNCHANGED <<configVars, harnessVars, modeSlot, presetSlot, prefersDark, phase, mode,
                 resolvedMode, currentPreset, transitions, domVars, heap, now,
                 history, atLoad, bootDom>>

\* Lines 376-389: apply mode to document.
ApplyModeEffect ==
  /\ EffectDone("applyMode")
  /\ rootClasses' = (rootClasses \ {"light", "dark"}) \cup {resolvedMode}
  /\ colorScheme' = resolvedMode
  /\ UNCHANGED <<configVars, harnessVars, modeSlot, presetSlot, prefersDark, phase, mode,
                 resolvedMode, currentPreset, queue, listeners, hasCleanup,
                 transitions, dataset, cssVars, heap, now, history, atLoad, bootDom>>

\* A call applyPresetColors(cp.colors, m) on the root as it is: the custom
\* properties it leaves, for each colour a probe may inherit there, and the
\* style maps it patches, in the heap or in the state object itself; the
\* patch is the font inheritance of lines 424-436, whatever the probe reads,
\* and none for a mode other than light and dark (line 398).
ApplyTo(cp, m, inherited) == applyPresetColors(ColorsOf(cp), m, cssVars, inherited)
AppliedVars(cp, m) ==
  {ApplyTo(cp, m, inherited).vars : inherited \in InheritedColors(colorScheme)}
PatchedBy(cp, m) ==
  IF m \notin Modes THEN ColorsOf(cp)
  ELSE [ColorsOf(cp) EXCEPT ![m] = InheritFonts(ColorsOf(cp)[m], ColorsOf(cp)[otherMode(m)])]
HeapAfter(cp, m) ==
  IF cp.ref = NoRef THEN heap ELSE [heap EXCEPT ![cp.ref] = PatchedBy(cp, m)]
StateAfter(cp, m) ==
  IF cp.ref = NoRef THEN [cp EXCEPT !.colors = PatchedBy(cp, m)] ELSE cp

\* Lines 509-512: apply preset when current preset or resolved mode changes.
ApplyPresetEffect ==
  /\ EffectDone("applyPreset")
  /\ IF currentPreset = Null
     THEN UNCHANGED <<cssVars, heap, currentPreset>>
     ELSE /\ cssVars' \in AppliedVars(currentPreset, resolvedMode)
          /\ heap' = HeapAfter(currentPreset, resolvedMode)
          /\ currentPreset' = StateAfter(currentPreset, resolvedMode)
  /\ UNCHANGED <<configVars, harnessVars, modeSlot, presetSlot, prefersDark, phase, mode,
                 resolvedMode, queue, listeners, hasCleanup, transitions,
                 rootClasses, colorScheme, dataset, now, history, atLoad, bootDom>>

\* Dependency arrays in which the apply-preset effect does not depend on
\* resolvedMode.
ScheduledEffects_PresetOnly(modeChanged, resolvedModeChanged, presetChanged) ==
  (IF modeChanged THEN {"resolveMode"} ELSE {})
    \cup (IF resolvedModeChanged THEN {"applyMode"} ELSE {})
    \cup (IF presetChanged THEN {"applyPreset"} ELSE {})

\* The dependency arrays of the effects (lines 373, 389, 512): the effects
\* that a render schedules, given which state changed.
ScheduledEffects(modeChanged, resolvedModeChanged, presetChanged) ==
  (IF modeChanged THEN {"resolveMode"} ELSE {})
    \cup (IF resolvedModeChanged THEN {"applyMode", "applyPreset"} ELSE {})
    \cup (IF presetChanged THEN {"applyPreset"} ELSE {})

\* React renders with the requested updates and schedules the effects whose
\* dependencies changed, and those in propEffects, whose dependencies are
\* props that changed.  A preset state object is a new object each time.
Commit(propEffects) ==
  /\ mode' = IF queue.mode = NoUpdate THEN mode ELSE queue.mode.v
  /\ resolvedMode' = IF queue.resolvedMode = NoUpdate THEN resolvedMode
                     ELSE queue.resolvedMode.v
  /\ currentPreset' = IF queue.currentPreset = NoUpdate THEN currentPreset
                      ELSE queue.currentPreset.v
  /\ LET presetChanged == /\ queue.currentPreset # NoUpdate
                          /\ ~(queue.currentPreset.v = Null /\ currentPreset = Null)
     IN pending' = ScheduledEffects(mode' # mode, resolvedMode' # resolvedMode,
                                    presetChanged) \cup propEffects
  /\ queue' = EmptyQueue

\* A render that the requested updates cause.
Render ==
  /\ phase = "mounted"
  /\ pending = {}
  /\ queue # EmptyQueue
  /\ Commit({})
  /\ UNCHANGED <<configVars, harnessVars, modeSlot, presetSlot, prefersDark, phase, flushing,
                 listeners, hasCleanup, transitions, domVars, heap, now, history, atLoad,
                 bootDom>>

(***************************************************************************)
(* UnifiedThemeProvider.tsx: the public operations.  A handler sees the    *)
(* state of the last render (mode, resolvedMode, currentPreset).           *)
(***************************************************************************)
\* An entry of the history: the operation, its argument and, for an
\* application of a preset, the state that was applied.
Event(op, arg, applied) == [op |-> op, arg |-> arg, applied |-> applied]

\* The history keeps the two latest entries.
Remember(h, e) == IF Len(h) < 2 THEN Append(h, e) ELSE Append(Tail(h), e)

\* An operation of the page's user or environment is counted and stamps time.
Operation ==
  /\ ~flushing
  /\ now <= MaxOps
  /\ now' = now + 1

\* Lines 633-646: a call of an operation that the context value of the last
\* render hands out, from an event handler, a timer or an effect of a
\* consumer.  The operations have no guard of their own: a call can come
\* while the effects that the render scheduled are still to run (the effects
\* of a consumer run before the provider's) and while the render of earlier
\* requests is outstanding.
UserCall ==
  /\ phase = "mounted"
  /\ Operation

\* A handleModeChange that replaces the whole requested state.
handleModeChange_Replacing(newMode) ==
  /\ queue' = [EmptyQueue EXCEPT !.mode = Update(newMode)]
  /\ modeSlot' = setStoredMode(newMode)

\* Lines 467-473: handleModeChange, as the update it requests and the slot
\* it leaves.
handleModeChange(newMode) ==
  /\ queue' = [queue EXCEPT !.mode = Update(newMode)]
  /\ modeSlot' = setStoredMode(newMode)

\* setMode(newMode)
SetMode(newMode) ==
  /\ UserCall
  /\ handleModeChange(newMode)
  /\ history' = Remember(history, Event("setMode", newMode, Undefined))
  /\ UNCHANGED <<atLoad, configVars, harnessVars, presetSlot, prefersDark, phase, mode, resolvedMode,
                 currentPreset, pending, flushing, listeners, hasCleanup,
                 transitions, domVars, heap, bootDom>>

Coordinates == [x |-> 10, y |-> 20]

\* A toggle computed from the preference instead of the resolved mode.
ToggledMode_OfPreference(m, r) == IF m = "light" THEN "dark" ELSE "light"

\* Line 477: the mode a toggle asks for, given the preference m and the
\* resolved mode r of the render whose handler is called.
ToggledMode(m, r) == IF r = "light" THEN "dark" ELSE "light"

\* Lines 475-506: handleModeToggle.  animated: the document has
\* startViewTransition and the user does not prefer reduced motion.
ToggleMode(animated, coordinates) ==
  /\ UserCall
  /\ LET newMode == ToggledMode(mode, resolvedMode)
     IN IF animated
        THEN /\ cssVars' = IF coordinates = Undefined THEN cssVars
                           ELSE SetProperties(cssVars,
                                  ("x" :> Raw("10px")) @@ ("y" :> Raw("20px")))
             /\ transitions' = Append(transitions, newMode)
             /\ UNCHANGED <<queue, modeSlot>>
        ELSE /\ handleModeChange(newMode)
             /\ UNCHANGED <<cssVars, transitions>>
  /\ history' = Remember(history, Event("toggleMode", IF animated THEN "animated" ELSE "instant",
                                      Undefined))
  /\ UNCHANGED <<atLoad, configVars, harnessVars, presetSlot, prefersDark, phase, mode, resolvedMode,
                 currentPreset, pending, flushing, listeners, hasCleanup,
                 rootClasses, colorScheme, dataset, heap, bootDom>>

\* Lines 497-499: the browser runs the callback given to startViewTransition.
\* Nothing cancels the callback when the provider unmounts: it then writes
\* the slot, and its setMode is a request to a component that is gone.
TransitionCallback ==
  /\ phase \in {"mounted", "unmounted"}
  /\ ~flushing
  /\ transitions # <<>>
  /\ IF phase = "mounted"
     THEN handleModeChange(Head(transitions))
     ELSE /\ modeSlot' = setStoredMode(Head(transitions))
          /\ UNCHANGED queue
  /\ transitions' = Tail(transitions)
  /\ history' = Remember(history, Event("transition", Head(transitions), Undefined))
  /\ UNCHANGED <<configVars, harnessVars, presetSlot, prefersDark, phase, mode, resolvedMode,
                 currentPreset, pending, flushing, listeners, hasCleanup, domVars,
                 heap, now, atLoad, bootDom>>

\* What a call of applyPreset was given, by value.
Snapshot(presetId, presetName, colors, appliedAt) ==
  [presetId |-> presetId, presetName |-> presetName, colors |-> colors,
   appliedAt |-> appliedAt]

\* Lines 514-541: applyPreset(preset), preset = [id, name, ref]: ref is the
\* object holding preset.colors.
applyPreset(preset) ==
  LET presetData == PresetState(preset.id, preset.name, NoColors, now, preset.ref)
  IN /\ queue' = [queue EXCEPT !.currentPreset = Update(presetData)]
     /\ presetSlot' = IF CanWrite THEN Serialize(heap, presetData) ELSE presetSlot
     /\ cssVars' \in AppliedVars(presetData, resolvedMode)
     /\ heap' = HeapAfter(presetData, resolvedMode)

\* The preset the callers of the model pass to applyPreset: an object of
\* their own.
ApplyInputs == {[id |-> "sunset", name |-> "Sunset", ref |-> UserRef("sunset")]}

ApplyPreset(preset) ==
  /\ UserCall
  /\ applyPreset(preset)
  /\ history' = Remember(history, Event("applyPreset", preset.id,
                                      Snapshot(preset.id, preset.name, heap[preset.ref], now)))
  /\ UNCHANGED <<atLoad, configVars, harnessVars, modeSlot, prefersDark, phase, mode, resolvedMode,
                 currentPreset, pending, flushing, listeners, hasCleanup,
                 transitions, rootClasses, colorScheme, dataset, bootDom>>

PresetIdInputs == {"modern-minimal", "brand", "constructor"}

\* Lines 543-566: setThemePresetById(presetId).  An inherited value passes
\* the test of line 547 and line 558 throws.
SetThemePresetById(presetId) ==
  /\ UserCall
  /\ LET preset == getAvailablePresetById(Collection, presetId)
     IN IF preset = Undefined
        THEN /\ history' = Remember(history, Event("setThemePresetById", presetId, Undefined))
             /\ UNCHANGED <<queue, presetSlot, cssVars, heap>>
        ELSE IF preset = Inherited(presetId)
        THEN /\ history' = Remember(history, Event("setThemePresetById", presetId, TypeError))
             /\ UNCHANGED <<queue, presetSlot, cssVars, heap>>
        ELSE /\ applyPreset([id |-> presetId, name |-> preset.label, ref |-> preset.ref])
             /\ history' = Remember(history,
                                  Event("setThemePresetById", presetId,
                                        Snapshot(presetId, preset.label, heap[preset.ref], now)))
  /\ UNCHANGED <<atLoad, configVars, harnessVars, modeSlot, prefersDark, phase, mode, resolvedMode,
                 currentPreset, pending, flushing, listeners, hasCleanup,
                 transitions, rootClasses, colorScheme, dataset, bootDom>>

\* Lines 568-619: clearPreset().  With an inherited value for the default
\* id line 586 throws after the slot was removed.
ClearPreset ==
  /\ UserCall
  /\ presetSlot' = IF CanRemove THEN Absent ELSE presetSlot
  /\ IF cfg.defaultPreset # ""
     THEN LET preset == getAvailablePresetById(Collection, cfg.defaultPreset)
              presetData == PresetState(cfg.defaultPreset, preset.label, NoColors, now,
                                        preset.ref)
          IN IF preset = Inherited(cfg.defaultPreset)
             THEN UNCHANGED <<queue, cssVars, heap>>
             ELSE IF preset # Undefined
             THEN /\ queue' = [queue EXCEPT !.currentPreset = Update(presetData)]
                  /\ cssVars' \in AppliedVars(presetData, resolvedMode)
                  /\ heap' = HeapAfter(presetData, resolvedMode)
             ELSE /\ queue' = [queue EXCEPT !.currentPreset = Update(Null)]
                  /\ UNCHANGED <<cssVars, heap>>
     ELSE /\ queue' = [queue EXCEPT !.currentPreset = Update(Null)]
          /\ cssVars' = RemoveProperties(cssVars, ALL_CSS_PROPERTIES)
          /\ UNCHANGED heap
  /\ history' = Remember(history,
       Event("clearPreset", "",
             IF getAvailablePresetById(Collection, cfg.defaultPreset)
                  = Inherited(cfg.defaultPreset)
             THEN TypeError ELSE Undefined))
  /\ UNCHANGED <<atLoad, configVars, harnessVars, modeSlot, prefersDark, phase, mode, resolvedMode,
                 currentPreset, pending, flushing, listeners, hasCleanup,
                 transitions, rootClasses, colorScheme, dataset, bootDom>>

\* The OS colour-scheme preference flips; a registered listener (line 363)
\* requests resolvedMode = getSystemTheme().
OSPreferenceChange ==
  /\ Operation
  /\ prefersDark' = ~prefersDark
  /\ queue' = IF listeners > 0
              THEN [queue EXCEPT !.resolvedMode = Update(getSystemThemeAfter(prefersDark'))]
              ELSE queue
  /\ history' = Remember(history, Event("osChange", getSystemThemeAfter(prefersDark'), Undefined))
  /\ UNCHANGED <<atLoad, configVars, harnessVars, modeSlot, presetSlot, phase, mode, resolvedMode,
                 currentPreset, pending, flushing, listeners, hasCleanup,
                 transitions, domVars, heap, bootDom>>

\* The provider is unmounted by its parent: React runs the cleanups of the
\* effects (line 368 is the only one) and discards the component's state
\* and the updates requested of it.  The document and the storage stay.
\* The unmount is a render of the parent: React flushes the effects that the
\* last render scheduled before it renders again.
Unmount ==
  /\ phase = "mounted"
  /\ pending = {}
  /\ Operation
  /\ phase' = "unmounted"
  /\ listeners' = ListenersAfterCleanup
  /\ hasCleanup' = FALSE
  /\ queue' = EmptyQueue
  /\ history' = Remember(history, Event("unmount", "", Undefined))
  /\ UNCHANGED <<atLoad, configVars, harnessVars, modeSlot, presetSlot, prefersDark, mode,
                 resolvedMode, currentPreset, pending, flushing, transitions,
                 domVars, heap, bootDom>>

\* Line 217 and the dependency arrays of lines 272, 282 and 357: the parent
\* renders the provider again and passes a customPresets object that is a
\* new object of the same content (an object literal in the JSX).  The
\* memoized collection, the registry and getAvailablePresetById are new
\* values, and the load-persisted-preset effect, which lists
\* getAvailablePresetById among its dependencies, is scheduled again.  The
\* presets inside the collection are the objects they were.  The render
\* commits the updates requested so far together with the new prop, after
\* the effects that the last render scheduled.
Rerender ==
  /\ phase = "mounted"
  /\ pending = {}
  /\ Operation
  /\ cfg.customPresets # "none"
  /\ Commit({"loadPreset"})
  /\ history' = Remember(history, Event("rerender", "", Undefined))
  /\ UNCHANGED <<atLoad, configVars, harnessVars, modeSlot, presetSlot, prefersDark, phase,
                 flushing, listeners, hasCleanup, transitions, domVars, heap, bootDom>>

\* The document is loaded afresh over the same storage: a new document, a
\* new JavaScript heap and the first-render state.
Reload ==
  /\ phase = "mounted"
  /\ ~flushing
  /\ now <= MaxOps
  /\ now' = now + 1
  /\ history' = Remember(history, Event("reload", "", Undefined))
  /\ atLoad' = [modeSlot |-> modeSlot, presetSlot |-> presetSlot]
  /\ phase' = "load"
  /\ mode' = InitialMode(cfg.defaultMode)
  /\ resolvedMode' = InitialResolvedMode(cfg.defaultMode)
  /\ currentPreset' = Null
  /\ queue' = EmptyQueue
  /\ pending' = {}
  /\ flushing' = FALSE
  /\ listeners' = 0
  /\ hasCleanup' = FALSE
  /\ transitions' = <<>>
  /\ rootClasses' = {}
  /\ colorScheme' = ""
  /\ dataset' = [themeEngineMode |-> "", themeEngineResolvedMode |-> ""]
  /\ cssVars' = EmptyMap
  /\ heap' = InitialHeap(Collection)
  /\ bootDom' = NoBootDom
  /\ UNCHANGED <<configVars, harnessVars, modeSlot, presetSlot, prefersDark>>

Next ==
  \/ BootstrapScript
  \/ Mount
  \/ LoadPersistedModeEffect
  \/ LoadPersistedPresetEffect
  \/ ResolveModeEffect
  \/ ApplyModeEffect
  \/ ApplyPresetEffect
  \/ Render
  \/ \E m \in ModeValues : SetMode(m)
  \/ \E animated \in BOOLEAN : ToggleMode(animated, Coordinates)
  \/ TransitionCallback
  \/ \E p \in ApplyInputs : ApplyPreset(p)
  \/ \E id \in PresetIdInputs : SetThemePresetById(id)
  \/ ClearPreset
  \/ OSPreferenceChange
  \/ Unmount
  \/ Rerender
  \/ Reload

Spec == Init /\ [][Next]_vars

\* Page load alone: the bootstrap script, the mount and the reconciliation.
NextBoot ==
  \/ BootstrapScript
  \/ Mount
  \/ LoadPersistedModeEffect
  \/ LoadPersistedPresetEffect
  \/ ResolveModeEffect
  \/ ApplyModeEffect
  \/ ApplyPresetEffect
  \/ Render

SpecBoot == InitStored /\ [][NextBoot]_vars

\* A visit over healthy storage, over storage whose quota is exhausted by
\* what an earlier session left (the preset no longer fits, the mode does)
\* and over storage that rejects every write.
InitFault ==
  /\ FirstRender
  /\ candidate = <<>>
  /\ probe = Undefined
  /\ <<cfg.defaultPreset, cfg.customPresets>> \in {<<"", "none">>, <<"modern-minimal", "valid">>}
  /\ cfg.defaultMode \in {"light", "system"}
  /\ ~prefersDark
  /\ serverRendered = TRUE
  /\ storageFault \in {"ok", "full", "readonly"}
  /\ modeSlot = (IF storageFault = "ok" THEN Absent ELSE Str("dark"))
  /\ presetSlot = (IF storageFault = "ok" THEN Absent ELSE Json(StoredSunset))
  /\ atLoad = [modeSlot |-> modeSlot, presetSlot |-> presetSlot]

SpecFault == InitFault /\ [][Next]_vars

\* The mount and at most one operation or environment event after it.
NextConverge == Next /\ now' <= 2

\* React flushes the effects a render scheduled: whichever effect is next,
\* it leaves the scheduled set (the part that the five effects share).
EffectFlushed == \E e \in EffectSet : EffectDone(e)

\* What React and the browser do for a mounted provider without being
\* asked: scheduled effects are flushed, requested updates are rendered and
\* view-transition callbacks are called.
SpecConverge ==
  /\ Init
  /\ [][NextConverge]_vars
  /\ WF_<<pending, flushing>>(EffectFlushed)
  /\ WF_vars(Render)
  /\ WF_vars(TransitionCallback)

(***************************************************************************)
(* preset-validation.ts as its callers use it: validateCustomPresets on a  *)
(* collection and validateTweakCNPreset on one of its presets.             *)
(***************************************************************************)
MaxEntries == 2

\* Every required property with a value.
CompleteRequired == RequiredFilled(Hex(17, 34, 51))

\* Every required and every recommended property with a value.
CompleteStyles ==
  CompleteRequired @@
  [p \in {RECOMMENDED_PROPERTIES[i] : i \in 1..Len(RECOMMENDED_PROPERTIES)} |->
     Hsl(210, 40, 98)]

\* Candidate presets: not an object; no label; no styles; neither; one
\* mode missing; required properties missing and empty in one mode; values
\* in syntaxes the recognizer does not list and recommended properties
\* missing; complete.
CandidatePresets ==
  {Undefined,
   [label |-> " ", styles |-> [light |-> CompleteStyles, dark |-> CompleteStyles]],
   [label |-> "Broken", styles |-> Undefined],
   [label |-> "", styles |-> Undefined],
   [label |-> "Half", styles |-> [light |-> CompleteStyles, dark |-> Undefined]],
   [label |-> "Gap",
    styles |-> [light |-> [p \in DOMAIN CompleteStyles \ {"card", "ring"} |->
                             IF p = "primary" THEN EmptyString ELSE CompleteStyles[p]],
                dark |-> CompleteRequired]],
   [label |-> "Odd",
    styles |-> [light |-> ("accent" :> Raw("not-a-color")) @@ CompleteStyles,
                dark |-> ("font-sans" :> Raw("Inter")) @@
                         ("border" :> Triplet(210, 40, 98)) @@ CompleteRequired]],
   [label |-> "Complete", styles |-> [light |-> CompleteStyles, dark |-> CompleteStyles]]}

CandidateKeys == {"brand", "", " ", "My Brand"}

CandidateEntries == {<<k, preset>> : k \in CandidateKeys, preset \in CandidatePresets}

\* Object.entries of a record: every key once.
CandidateCollections ==
  {c \in UNION {[1..n -> CandidateEntries] : n \in 0..MaxEntries} :
     \A i, j \in 1..Len(c) : i # j => c[i][1] # c[j][1]}

\* A caller with a collection at hand; the provider is not involved.
InitValidate ==
  /\ FirstRender
  /\ cfg = [defaultMode |-> "light", defaultPreset |-> "", customPresets |-> "none"]
  /\ ~prefersDark
  /\ serverRendered = FALSE
  /\ storageFault = "ok"
  /\ modeSlot = Absent
  /\ presetSlot = Absent
  /\ atLoad = [modeSlot |-> modeSlot, presetSlot |-> presetSlot]
  /\ candidate \in CandidateCollections
  /\ probe = Undefined

\* validateCustomPresets(candidate); a behaviour follows one call.
ValidateCustomPresets ==
  /\ validation = NotValidated
  /\ validation' = [call |-> "validateCustomPresets", index |-> 0,
                    result |-> validateCustomPresets(candidate)]
  /\ UNCHANGED <<cfg, serverRendered, storageFault, modeSlot, presetSlot, prefersDark,
                 phase, mode, resolvedMode, currentPreset, queue, pending, flushing,
                 listeners, hasCleanup, transitions, rootClasses, colorScheme, dataset,
                 cssVars, heap, now, history, atLoad, bootDom, candidate, probe, outcome>>

\* validateTweakCNPreset(preset, id) for the i-th entry of the candidate.
ValidateTweakCNPreset(i) ==
  /\ validation = NotValidated
  /\ i \in 1..Len(candidate)
  /\ validation' = [call |-> "validateTweakCNPreset", index |-> i,
                    result |-> validateTweakCNPreset(candidate[i][2], candidate[i][1])]
  /\ UNCHANGED <<cfg, serverRendered, storageFault, modeSlot, presetSlot, prefersDark,
                 phase, mode, resolvedMode, currentPreset, queue, pending, flushing,
                 listeners, hasCleanup, transitions, rootClasses, colorScheme, dataset,
                 cssVars, heap, now, history, atLoad, bootDom, candidate, probe, outcome>>

NextValidate ==
  \/ ValidateCustomPresets
  \/ \E i \in 1..MaxEntries : ValidateTweakCNPreset(i)

SpecValidate == InitValidate /\ [][NextValidate]_vars

(***************************************************************************)
(* The colour normalizers and the two property applicators as functions:   *)
(* a caller hands them a probe, and may hand them the result again.        *)
(***************************************************************************)
\* Channel values of the rgb() and hex probes.
Channels == {0, 37, 128, 255}

\* hsl() and triplet components: in range, at the ends and out of range.
Hues == {0, 210, 360, 400}
Percents == {0, 40, 100, 120}

ColorProbes ==
  {Rgb(r, g, b) : r \in Channels, g \in Channels, b \in Channels} \cup
  {Hex(r, g, b) : r \in Channels, g \in Channels, b \in Channels} \cup
  {Hsl(h, sl[1], sl[2]) : h \in Hues, sl \in Percents \X Percents} \cup
  {Triplet(h, sl[1], sl[2]) : h \in Hues, sl \in Percents \X Percents} \cup
  {Named("white", 255, 255, 255), Raw("not-a-color"), CssVar("--brand")}

\* Mode maps that differ in their fonts: font-mono missing, empty or set,
\* font-sans missing or set.
FontChoices(mono, sans) ==
  {[p \in fs |-> IF p = "font-mono" THEN m ELSE sans] :
     fs \in SUBSET {"font-mono", "font-sans"}, m \in {EmptyString, mono}}

ProbeLightMaps ==
  {(("background" :> Hex(255, 255, 255)) @@ ("radius" :> Raw("0.5rem"))) @@ f :
     f \in FontChoices(Raw("Fira Code"), Raw("Inter"))}

ProbeDarkMaps ==
  {(("background" :> Triplet(222, 47, 11)) @@ ("primary" :> Rgb(96, 165, 250)) @@
      ("accent" :> Raw("not-a-color"))) @@ f :
     f \in FontChoices(Raw("JetBrains Mono"), Raw("Georgia"))}

\* What the root may carry before a call: nothing, or the properties of an
\* earlier preset and the ripple coordinates.
ProbeRoots ==
  {EmptyMap,
   ("card" :> Triplet(1, 2, 3)) @@ ("font-serif" :> Raw("Old")) @@ ("x" :> Raw("10px"))}

\* A probe carries the colour that a probe element inherits during the call.
ApplyProbes ==
  {[fn |-> "apply", preset |-> [light |-> l, dark |-> d], mode |-> m, vars |-> v,
    inherited |-> i] :
     l \in ProbeLightMaps, d \in ProbeDarkMaps, m \in Modes, v \in ProbeRoots,
     i \in ProbeEnvironments}

NormalizeProbes ==
  {[fn |-> "normalize", value |-> v, inherited |-> i] :
     v \in ColorProbes, i \in ProbeEnvironments}

\* A caller with a probe at hand; the provider is not involved.
InitPure ==
  /\ FirstRender
  /\ cfg = [defaultMode |-> "light", defaultPreset |-> "", customPresets |-> "none"]
  /\ ~prefersDark
  /\ serverRendered = FALSE
  /\ storageFault = "ok"
  /\ modeSlot = Absent
  /\ presetSlot = Absent
  /\ atLoad = [modeSlot |-> modeSlot, presetSlot |-> presetSlot]
  /\ candidate = <<>>
  /\ probe \in NormalizeProbes \cup ApplyProbes

\* The provider's applicator, then the root and the preset it leaves.
ProviderApply(preset, m, root, inherited) ==
  LET r == applyPresetColors(preset, m, root, inherited)
  IN [vars |-> r.vars, preset |-> r.preset]

\* Script lines 328-345: the font patch of the mode's map (in place) and
\* applyPresetProperties on the patched map.
ScriptApply(preset, m, root, inherited) ==
  LET colors == ScriptInheritFonts(preset[m], preset[otherMode(m)])
  IN [vars |-> applyPresetProperties(colors, root, inherited),
      preset |-> [preset EXCEPT ![m] = colors]]

Implementations == {"provider", "script"}

NormalizeBy(by, v, inherited) ==
  IF by = "provider" THEN normalizeColorValueToHslTriplet(v, inherited)
  ELSE ScriptNormalizeColorValueToHslTriplet(v, inherited)

ApplyBy(by, preset, m, root, inherited) ==
  IF by = "provider" THEN ProviderApply(preset, m, root, inherited)
  ELSE ScriptApply(preset, m, root, inherited)

\* normalizeColorValueToHslTriplet(probe) of the provider or of the script.
Normalize(by) ==
  /\ probe # Undefined
  /\ probe.fn = "normalize"
  /\ outcome = NotCalled
  /\ outcome' = [by |-> by, calls |-> 1, value |-> NormalizeBy(by, probe.value,
                                                                   probe.inherited),
                 first |-> Undefined]
  /\ UNCHANGED <<cfg, serverRendered, storageFault, modeSlot, presetSlot, prefersDark,
                 phase, mode, resolvedMode, currentPreset, queue, pending, flushing,
                 listeners, hasCleanup, transitions, rootClasses, colorScheme, dataset,
                 cssVars, heap, now, history, atLoad, bootDom, candidate, validation,
                 probe>>

\* The same normalizer on what it returned.
NormalizeAgain ==
  /\ probe # Undefined
  /\ probe.fn = "normalize"
  /\ outcome.calls = 1
  /\ outcome' = [by |-> outcome.by, calls |-> 2,
                 value |-> NormalizeBy(outcome.by, outcome.value, probe.inherited),
                 first |-> outcome.value]
  /\ UNCHANGED <<cfg, serverRendered, storageFault, modeSlot, presetSlot, prefersDark,
                 phase, mode, resolvedMode, currentPreset, queue, pending, flushing,
                 listeners, hasCleanup, transitions, rootClasses, colorScheme, dataset,
                 cssVars, heap, now, history, atLoad, bootDom, candidate, validation,
                 probe>>

\* The preset of the probe applied for the probe's mode to the probe's root.
Apply(by) ==
  /\ probe # Undefined
  /\ probe.fn = "apply"
  /\ outcome = NotCalled
  /\ outcome' = [by |-> by, calls |-> 1,
                 value |-> ApplyBy(by, probe.preset, probe.mode, probe.vars,
                                   probe.inherited),
                 first |-> Undefined]
  /\ UNCHANGED <<cfg, serverRendered, storageFault, modeSlot, presetSlot, prefersDark,
                 phase, mode, resolvedMode, currentPreset, queue, pending, flushing,
                 listeners, hasCleanup, transitions, rootClasses, colorScheme, dataset,
                 cssVars, heap, now, history, atLoad, bootDom, candidate, validation,
                 probe>>

\* The same preset object applied again for the same mode to the root the
\* first application left.
ApplyAgain ==
  /\ probe # Undefined
  /\ probe.fn = "apply"
  /\ outcome.calls = 1
  /\ outcome' = [by |-> outcome.by, calls |-> 2,
                 value |-> ApplyBy(outcome.by, outcome.value.preset, probe.mode,
                                   outcome.value.vars, probe.inherited),
                 first |-> outcome.value]
  /\ UNCHANGED <<cfg, serverRendered, storageFault, modeSlot, presetSlot, prefersDark,
                 phase, mode, resolvedMode, currentPreset, queue, pending, flushing,
                 listeners, hasCleanup, transitions, rootClasses, colorScheme, dataset,
                 cssVars, heap, now, history, atLoad, bootDom, candidate, validation,
                 probe>>

NextPure ==
  \/ \E by \in Implementations : Normalize(by)
  \/ NormalizeAgain
  \/ \E by \in Implementations : Apply(by)
  \/ ApplyAgain

SpecPure == InitPure /\ [][NextPure]_vars


(***************************************************************************)
(* Properties.                                                             *)
(***************************************************************************)
\* No effect is scheduled or running and no state update awaits a render.
Quiescent ==
  /\ phase = "mounted"
  /\ pending = {}
  /\ ~flushing
  /\ queue = EmptyQueue

Last(seq) == seq[Len(seq)]
Previous(seq) == seq[Len(seq) - 1]

\* Nothing has happened to the document since it was loaded.
Pristine == history = <<>> \/ Last(history).op = "reload"

\* The custom properties of the fixed property set.
FixedVars(vs) == [p \in DOMAIN vs \cap ALL_CSS_PROPERTIES |-> vs[p]]

\* What the Property Applicator computes for a colors object and a mode
\* where a probe inherits the given colour.
ComputedVars(colors, m, inherited) ==
  applyPresetColors(colors, m, EmptyMap, inherited).vars

\* The custom properties are what the Property Applicator computes on the
\* root as it is, for a colour that a probe may inherit there.
Computed(vs, colors, m) ==
  \E inherited \in InheritedColors(colorScheme) :
    FixedVars(vs) = ComputedVars(colors, m, inherited)

\* C1: once all pending effects have run, if currentPreset is not null, the
\* custom properties of the fixed set on the root are exactly those the
\* Property Applicator computes for currentPreset.colors and resolvedMode.
C1_RootCarriesCurrentPreset ==
  (Quiescent /\ currentPreset # Null)
    => Computed(cssVars, ColorsOf(currentPreset), resolvedMode)

\* applyPreset was called while the effects of the mount were still to run,
\* on a dark page: the load effect has since adopted the state that the call
\* stored, and the root carries its dark values, the inherited font included.
C1_Witness ==
  /\ Quiescent
  /\ cfg.defaultPreset = "modern-minimal"
  /\ Len(history) = 1
  /\ history[1].op = "applyPreset"
  /\ currentPreset # Null
  /\ currentPreset.ref = NoRef
  /\ currentPreset.presetId = "sunset"
  /\ resolvedMode = "dark"
  /\ cssVars["background"] = Triplet(20, 14, 4)
  /\ "font-mono" \in DOMAIN cssVars

\* C2: the custom properties the bootstrap script wrote are the ones on the
\* root after the provider has mounted over the same inputs and quiesced.
C2_ScriptPropertiesMatchProvider ==
  (Quiescent /\ Pristine /\ bootDom.ran) => cssVars = bootDom.cssVars

\* C3: the light/dark class and the color-scheme style the bootstrap script
\* wrote are the ones on the root after the provider has mounted over the
\* same inputs and quiesced.
C3_ScriptModeMatchesProvider ==
  (Quiescent /\ Pristine /\ bootDom.ran)
    => /\ rootClasses = bootDom.rootClasses
       /\ colorScheme = bootDom.colorScheme

\* C4: resolvedMode is light or dark in every reachable state, and whenever
\* no effect is pending the root carries exactly the class of resolvedMode
\* and the color-scheme style of resolvedMode.
C4_ResolvedModeOnRoot ==
  /\ resolvedMode \in {"light", "dark"}
  /\ Quiescent => (rootClasses = {resolvedMode} /\ colorScheme = resolvedMode)

\* C5: a persisted mode that is not light, dark or system is ignored: mode
\* keeps the default mode, and mode is always one of the three values.
C5_InvalidStoredModeIgnored ==
  /\ mode \in ModeValues
  /\ (/\ Quiescent
      /\ Pristine
      /\ atLoad.modeSlot.t = "str"
      /\ atLoad.modeSlot.s \notin ModeValues)
     => mode = cfg.defaultMode

\* C6: whenever no effect is pending, a mode of light or dark is the
\* resolved mode whatever the OS signal, and under mode system the resolved
\* mode is the current OS signal.
C6_ResolvedModeFollowsMode ==
  Quiescent =>
    /\ (mode \in {"light", "dark"} => resolvedMode = mode)
    /\ (mode = "system" => resolvedMode = (IF prefersDark THEN "dark" ELSE "light"))

\* The OS signal changed while mode was system, and the state has settled.
C6_Witness ==
  /\ Quiescent
  /\ mode = "system"
  /\ Len(history) = 2
  /\ history[1].op = "osChange"
  /\ history[2].op = "osChange"
  /\ listeners = 1

\* C7: before any effect has run, the state is a function of the props
\* only: mode is the default mode, resolvedMode is dark iff the default
\* mode is dark (else light) and currentPreset is null.
C7_FirstRenderFromPropsOnly ==
  (phase \in {"load", "boot"} \/ (phase = "mounted" /\ pending = EffectSet))
    => /\ mode = cfg.defaultMode
       /\ resolvedMode \in {"light", "dark"}
       /\ (resolvedMode = "dark" <=> cfg.defaultMode = "dark")
       /\ currentPreset = Null

\* The provider has rendered over filled slots and a dark OS signal, with
\* default mode system, and no effect has run yet.
C7_Witness ==
  /\ phase = "mounted"
  /\ pending = EffectSet
  /\ cfg.defaultMode = "system"
  /\ prefersDark
  /\ modeSlot = Str("dark")
  /\ presetSlot = Json(StoredSunset)
  /\ resolvedMode = "light"

\* The fields of a preset state, by value.
StateValue(cp) == Snapshot(cp.presetId, cp.presetName, ColorsOf(cp), cp.appliedAt)

\* C8: after applyPreset(p) with a successful write and a fresh mount over
\* the same storage, reconciliation ends with currentPreset carrying the
\* presetId, presetName, colors and appliedAt that were applied.
C8_PresetRoundTrip ==
  (/\ Quiescent
   /\ storageFault = "ok"
   /\ Len(history) >= 2
   /\ Last(history).op = "reload"
   /\ Previous(history).applied # Undefined)
    => /\ currentPreset # Null
       /\ StateValue(currentPreset) = Previous(history).applied

\* C9: after setMode(m) with a successful write and a fresh mount over the
\* same storage, reconciliation ends with mode = m whatever the default
\* mode; over an empty mode slot it ends with mode = default mode.
C9_ModeRoundTrip ==
  Quiescent =>
    /\ (/\ storageFault = "ok"
        /\ Len(history) >= 2
        /\ Last(history).op = "reload"
        /\ Previous(history).op = "setMode")
       => mode = Previous(history).arg
    /\ (Pristine /\ atLoad.modeSlot = Absent) => mode = cfg.defaultMode

\* setMode("dark") under default mode light, then a fresh mount.
C9_Witness ==
  /\ Quiescent
  /\ cfg.defaultMode = "light"
  /\ history = <<Event("setMode", "dark", Undefined), Event("reload", "", Undefined)>>
  /\ mode = "dark"

\* The default-preset path: the state built from the configured default
\* preset when it is configured and in the registry, else null.
DefaultPresetAdopted ==
  IF cfg.defaultPreset # "" /\ cfg.defaultPreset \in DOMAIN availablePresets(Collection)
  THEN /\ currentPreset # Null
       /\ currentPreset.presetId = cfg.defaultPreset
       /\ currentPreset.presetName = availablePresets(Collection)[cfg.defaultPreset].label
       /\ currentPreset.ref = availablePresets(Collection)[cfg.defaultPreset].ref
  ELSE currentPreset = Null

\* Slot contents that do not parse, or parse to something without both
\* colors.light and colors.dark.
Unparseable == {Str(""), Garbage}
Misshapen == {Json(JsonNull), Json(StoredNoColors), Json(StoredLightOnly)}

\* C10: a stored preset that does not parse, or parses to something without
\* both colors.light and colors.dark, is removed and the default-preset path
\* is taken; the path is also taken when the slot is absent.
C10_MalformedPresetDiscarded ==
  (Quiescent /\ Pristine /\ CanRead) =>
    /\ atLoad.presetSlot \in Unparseable \cup Misshapen
         => (presetSlot = Absent /\ DefaultPresetAdopted)
    /\ atLoad.presetSlot = Absent => DefaultPresetAdopted

\* What the bootstrap script writes for the configured default preset, in
\* the mode whose class it left on the root.
ScriptDefaultVars ==
  LET m == IF "dark" \in bootDom.rootClasses THEN "dark" ELSE "light"
      colors == defaultPresetData.colors
  IN {applyPresetProperties(ScriptInheritFonts(colors[m], colors[otherMode(m)]),
                            EmptyMap, inherited) :
        inherited \in InheritedColors(bootDom.colorScheme)}

\* C11: when reading from storage throws, reconciliation and the bootstrap
\* script end as with both slots empty: mode is the default mode and the
\* configured default preset (when configured and found) is adopted and
\* applied.
C11_UnreadableStorageAsAbsent ==
  (Quiescent /\ Pristine /\ ~CanRead) =>
    /\ mode = cfg.defaultMode
    /\ DefaultPresetAdopted
    /\ currentPreset # Null
         => Computed(cssVars, ColorsOf(currentPreset), resolvedMode)
    /\ (bootDom.ran /\ defaultPresetData # Undefined)
         => bootDom.cssVars \in ScriptDefaultVars

\* The mode that a preference resolves to under the current OS signal.
Resolved(m) == IF m = "system" THEN (IF prefersDark THEN "dark" ELSE "light") ELSE m

\* C12: when the storage write throws, setMode and applyPreset still take
\* effect in memory and on the document: after setMode(m) mode is m and the
\* root carries its class, after applyPreset(p) currentPreset is p and the
\* root carries its properties, while the slot keeps what it held.
C12_FailedWriteKeepsState ==
  (Quiescent /\ history # <<>>) =>
    /\ (~CanWriteMode /\ Last(history).op = "setMode")
         => /\ mode = Last(history).arg
            /\ rootClasses = {Resolved(mode)}
            /\ colorScheme = Resolved(mode)
            /\ modeSlot = atLoad.modeSlot
    /\ (~CanWrite /\ Last(history).op = "applyPreset")
         => /\ currentPreset # Null
            /\ currentPreset.presetId = Last(history).arg
            /\ currentPreset.presetName = Last(history).applied.presetName
            /\ currentPreset.appliedAt = Last(history).applied.appliedAt
            /\ Computed(cssVars, ColorsOf(currentPreset), resolvedMode)

\* The step is a call of setMode or toggleMode, or the transition callback
\* in which an animated toggleMode changes the mode.
ModeCall ==
  \/ /\ now' # now
     /\ Last(history').op \in {"setMode", "toggleMode"}
  \/ /\ now' = now
     /\ transitions # <<>>
     /\ transitions' = Tail(transitions)

\* The step is a call of applyPreset, setThemePresetById or clearPreset.
PresetCall ==
  /\ now' # now
  /\ Last(history').op \in {"applyPreset", "setThemePresetById", "clearPreset"}

\* C13: the two slots are independent.  A call of setMode or toggleMode
\* leaves the preset slot, currentPreset and any requested currentPreset as
\* they were; a call of applyPreset, setThemePresetById or clearPreset leaves
\* the mode slot, mode and any requested mode as they were; this also when
\* the call's own write is rejected.
C13_SlotsIndependent ==
  [][ /\ ModeCall => /\ presetSlot' = presetSlot
                     /\ currentPreset' = currentPreset
                     /\ queue'.currentPreset = queue.currentPreset
      /\ PresetCall => /\ modeSlot' = modeSlot
                       /\ mode' = mode
                       /\ queue'.mode = queue.mode
                       /\ queue'.resolvedMode = queue.resolvedMode ]_vars

\* applyPreset and setMode were called while the effects of the mount were
\* still to run: the preset write was rejected by the quota and the mode
\* write went through beside it.
C13_Witness ==
  /\ phase = "mounted"
  /\ pending = EffectSet
  /\ storageFault = "full"
  /\ Len(history) = 2
  /\ history[1].op = "applyPreset"
  /\ history[2] = Event("setMode", "light", Undefined)
  /\ queue.mode = Update("light")
  /\ queue.currentPreset # NoUpdate
  /\ currentPreset = Null
  /\ modeSlot = Str("light")
  /\ presetSlot = Json(StoredSunset)

\* C14: setThemePresetById(id) with an id outside the merged registry
\* changes nothing and raises nothing: currentPreset, the requested state,
\* the preset slot and the custom properties on the root stay as they were
\* and the call returns normally.  With an id of the
\* registry it requests a currentPreset of that id with the entry's label
\* and style maps, writes that state to the preset slot and leaves on the
\* root what the Property Applicator computes for it, as applyPreset does.
C14_SetThemePresetById ==
  [][ (now' # now /\ Last(history').op = "setThemePresetById") =>
        LET id == Last(history').arg
            registry == availablePresets(Collection)
        IN IF id \notin DOMAIN registry
           THEN /\ currentPreset' = currentPreset
                /\ queue' = queue
                /\ presetSlot' = presetSlot
                /\ cssVars' = cssVars
                /\ heap' = heap
                /\ Last(history').applied # TypeError
           ELSE /\ queue'.currentPreset # NoUpdate
                /\ LET cp == queue'.currentPreset.v
                   IN /\ cp.presetId = id
                      /\ cp.presetName = registry[id].label
                      /\ cp.ref = registry[id].ref
                      /\ cp.appliedAt = now
                      /\ presetSlot' = Json(JsonObject(id, registry[id].label,
                                                       heap[registry[id].ref], now))
                      /\ Computed(cssVars', heap[registry[id].ref], resolvedMode) ]_vars

\* C15: after clearPreset with a default preset that is configured and in
\* the merged registry, and once the effects have run, currentPreset is the
\* default preset with the registry entry's label and style maps, the preset
\* slot holds nothing, and the root carries what the Property Applicator
\* computes for the default preset and the resolved mode.
C15_ClearPresetWithDefault ==
  (/\ Quiescent
   /\ history # <<>>
   /\ Last(history).op = "clearPreset"
   /\ cfg.defaultPreset # ""
   /\ cfg.defaultPreset \in DOMAIN availablePresets(Collection))
    => /\ currentPreset # Null
       /\ currentPreset.presetId = cfg.defaultPreset
       /\ currentPreset.presetName = availablePresets(Collection)[cfg.defaultPreset].label
       /\ currentPreset.ref = availablePresets(Collection)[cfg.defaultPreset].ref
       /\ presetSlot = Absent
       /\ Computed(cssVars, ColorsOf(currentPreset), resolvedMode)

\* A caller's preset was applied and stored, then cleared: the default
\* preset has taken its place and the slot is empty.
C15_Witness ==
  /\ Quiescent
  /\ cfg.defaultPreset = "modern-minimal"
  /\ Len(history) = 2
  /\ history[1].op = "applyPreset"
  /\ history[1].arg = "sunset"
  /\ history[2].op = "clearPreset"
  /\ currentPreset # Null
  /\ currentPreset.presetId = "modern-minimal"
  /\ presetSlot = Absent
  /\ "background" \in DOMAIN cssVars

\* C16: from a clearPreset with no default preset configured until the next
\* operation, currentPreset is null or requested to be null, the preset
\* slot is removed and the root carries no custom property of the fixed
\* set; once the effects have run currentPreset is null.
C16_ClearPresetWithoutDefault ==
  (/\ history # <<>>
   /\ Last(history).op = "clearPreset"
   /\ cfg.defaultPreset = "")
    => /\ presetSlot = Absent
       /\ DOMAIN cssVars \cap ALL_CSS_PROPERTIES = {}
       /\ \/ queue.currentPreset = Update(Null)
          \/ queue.currentPreset = NoUpdate /\ currentPreset = Null
       /\ Quiescent => currentPreset = Null

\* C17: a call of toggleMode asks for the opposite of the resolved mode it
\* is called with, light for dark and dark for light, never system, also
\* when the preference is system.  Without a view transition the call
\* itself requests that mode and writes it to the mode slot; with one, the
\* callback of the transition does both with the mode computed at the call
\* (for a provider that was unmounted in between there is no mode to
\* request, and the callback writes the slot).
C17_ToggleOppositeOfResolved ==
  [][ LET target == IF resolvedMode = "dark" THEN "light" ELSE "dark"
      IN /\ (now' # now /\ Last(history') = Event("toggleMode", "instant", Undefined))
              => /\ queue'.mode = Update(target)
                 /\ modeSlot' = Str(target)
         /\ (now' # now /\ Last(history') = Event("toggleMode", "animated", Undefined))
              => /\ transitions' = Append(transitions, target)
                 /\ queue'.mode = queue.mode
         /\ (now' = now /\ transitions # <<>> /\ transitions' = Tail(transitions))
              => /\ Head(transitions) \in {"light", "dark"}
                 /\ phase = "mounted" => queue'.mode = Update(Head(transitions))
                 /\ modeSlot' = Str(Head(transitions)) ]_vars

\* toggleMode was called while the effects of the mount were still to run,
\* under preference system on a dark OS: the resolved mode of that render
\* was light, and the call asked for dark and stored it.
C17_Witness ==
  /\ phase = "mounted"
  /\ pending = EffectSet
  /\ cfg.defaultMode = "system"
  /\ prefersDark
  /\ history = <<Event("toggleMode", "instant", Undefined)>>
  /\ resolvedMode = "light"
  /\ queue.mode = Update("dark")
  /\ modeSlot = Str("dark")

\* The errors and warnings that validation reports for one entry of a
\* custom collection.
EntryErrors(coll, id) ==
  IF Trim(id) = "" THEN << <<"id">> >>
  ELSE validateTweakCNPreset(CollectionGet(coll, id), id).errors
EntryWarnings(coll, id) ==
  IF Trim(id) = "" THEN <<>>
  ELSE validateTweakCNPreset(CollectionGet(coll, id), id).warnings

BuiltInEntry(id) == [label |-> tweakcnPresets[id].label, ref |-> BuiltInRef(id)]
CustomEntry(coll, id) == [label |-> CollectionGet(coll, id).label, ref |-> CustomRef(id)]

\* C18: when no entry of the custom collection has a validation error,
\* warnings or not, the merged registry holds every custom entry under its
\* key and every built-in preset whose id no custom entry uses, and looking
\* up an id of both returns the custom entry.
C18_CustomPresetsMerged ==
  (/\ Len(Collection) > 0
   /\ \A id \in CollectionKeys(Collection) : EntryErrors(Collection, id) = <<>>)
    => LET registry == availablePresets(Collection)
       IN /\ DOMAIN registry = CollectionKeys(Collection) \cup DOMAIN tweakcnPresets
          /\ \A id \in CollectionKeys(Collection) :
               registry[id] = CustomEntry(Collection, id)
          /\ \A id \in DOMAIN tweakcnPresets \ CollectionKeys(Collection) :
               registry[id] = BuiltInEntry(id)
          /\ \A id \in DOMAIN tweakcnPresets \cap CollectionKeys(Collection) :
               getAvailablePresetById(Collection, id) = CustomEntry(Collection, id)

\* A collection with warnings and no error overrides the built-in preset
\* that is the configured default: the load adopts the custom entry, its
\* properties included.
C18_Witness ==
  /\ Quiescent
  /\ cfg.customPresets = "valid"
  /\ cfg.defaultPreset = "modern-minimal"
  /\ EntryWarnings(Collection, "modern-minimal") # <<>>
  /\ currentPreset # Null
  /\ currentPreset.presetName = "My Minimal"
  /\ currentPreset.ref = CustomRef("modern-minimal")
  /\ resolvedMode = "dark"
  /\ cssVars["radius"] = Raw("1rem")

\* C19: when validation reports an error for at least one entry of the
\* custom collection, the merged registry is the built-in collection: no
\* custom id is added and no built-in entry is replaced.
C19_RejectedCollectionLeavesBuiltIns ==
  (\E id \in CollectionKeys(Collection) : EntryErrors(Collection, id) # <<>>)
    => LET registry == availablePresets(Collection)
       IN /\ DOMAIN registry = DOMAIN tweakcnPresets
          /\ \A id \in DOMAIN tweakcnPresets : registry[id] = BuiltInEntry(id)

\* The collection holds a valid entry and one without styles; the valid
\* entry is the configured default and the load has not found it.
C19_Witness ==
  /\ Quiescent
  /\ cfg.customPresets = "invalid"
  /\ cfg.defaultPreset = "brand"
  /\ EntryErrors(Collection, "brand") = <<>>
  /\ EntryErrors(Collection, "broken") # <<>>
  /\ atLoad.presetSlot = Absent
  /\ currentPreset = Null
  /\ presetSlot = Absent
  /\ DOMAIN cssVars \cap ALL_CSS_PROPERTIES = {}

\* C20: an entry of the custom collection with a validation error is not in
\* the merged registry, while the entries of the same collection without
\* errors, with or without warnings, are merged in.
C20_InvalidEntriesDroppedIndividually ==
  \A id \in CollectionKeys(Collection) :
    IF EntryErrors(Collection, id) = <<>>
    THEN getAvailablePresetById(Collection, id) = CustomEntry(Collection, id)
    ELSE getAvailablePresetById(Collection, id) # CustomEntry(Collection, id)

\* A mode map defines a property when it has a value for it.
Defines(colors, prop) == prop \in DOMAIN colors /\ Truthy(colors[prop])

\* The custom property a call left on the root ("" when there is none).
Written(root, prop) == Lookup(root, prop)

\* A mode map lacks a font: it has no such key, or it has no value for it.
Readings == {"key", "value"}
Lacks(colors, f, reading) ==
  IF reading = "key" THEN f \notin DOMAIN colors ELSE ~Defines(colors, f)

\* The properties of the fixed set that have a resolved value for a preset
\* and a mode: a value in the mode's map, a font that the mode's map lacks
\* and the other mode's map defines, or the fixed default of spacing and
\* letter-spacing.
ResolvedProperties(preset, m, reading) ==
  {p \in ALL_CSS_PROPERTIES :
     \/ Defines(preset[m], p)
     \/ /\ p \in fontProperties
        /\ Lacks(preset[m], p, reading)
        /\ Defines(preset[otherMode(m)], p)
     \/ p \in {"spacing", "letter-spacing"}}

\* What an applicator leaves on the root of the probe: the one that was
\* called, and the other one on the same probe.
LeftBy(by) ==
  IF by = outcome.by THEN outcome.value.vars
  ELSE ApplyBy(by, probe.preset, probe.mode, probe.vars, probe.inherited).vars

\* C21: after a preset has been applied for a mode, by the provider's
\* applicator or by the script's, the custom properties of the fixed set on
\* the root are exactly those with a resolved value for the preset and the
\* mode, whatever an earlier application had left on the root; a font that
\* the mode's map lacks is read the same way for both applicators.
C21_ExactlyResolvedProperties ==
  (probe # Undefined /\ probe.fn = "apply" /\ outcome.calls = 1)
    => \E reading \in Readings :
         \A by \in Implementations :
           DOMAIN LeftBy(by) \cap ALL_CSS_PROPERTIES
             = ResolvedProperties(probe.preset, probe.mode, reading)

\* C22: the bootstrap script ends normally whatever the storage holds and
\* also when reading it throws: no exception leaves the script.
C22_ScriptNeverThrows == bootDom.ran => ~bootDom.escaped

\* C23: what validateTweakCNPreset and validateCustomPresets return has
\* isValid true exactly when its list of errors is empty, whatever its
\* warnings.
C23_ValidIffNoErrors ==
  validation # NotValidated
    => (validation.result.isValid <=> validation.result.errors = <<>>)

\* A collection was found valid although the validator has warnings for it.
C23_Witness ==
  /\ validation.call = "validateCustomPresets"
  /\ Len(candidate) = 2
  /\ validation.result.isValid
  /\ validation.result.errors = <<>>
  /\ Len(validation.result.warnings) >= 10

\* How often a message occurs in a list of messages.
Count(seq, e) == Cardinality({i \in DOMAIN seq : seq[i] = e})

RequiredSet ==
  {"background", "foreground", "primary", "primary-foreground", "secondary",
   "secondary-foreground", "card", "card-foreground"}
RecommendedSet ==
  {"border", "input", "ring", "muted", "muted-foreground", "accent",
   "accent-foreground", "destructive", "destructive-foreground", "popover",
   "popover-foreground"}

\* C24: for a candidate preset, a missing styles object is one error and
\* nothing is reported about light or dark.  With a styles object, a missing
\* mode is one error for that mode, whatever the other mode is; a present
\* mode has one error for each of the 8 required properties that is missing
\* or empty and none for the others, and a missing recommended property is
\* a warning and no error.
C24_PresetErrors ==
  (validation.call = "validateTweakCNPreset" /\ candidate[validation.index][2] # Undefined)
    => LET id == candidate[validation.index][1]
           preset == candidate[validation.index][2]
           errors == validation.result.errors
           warnings == validation.result.warnings
           About(m) == {i \in DOMAIN errors :
                          errors[i][1] \in {"mode-styles", "required"} /\ errors[i][3] = m}
       IN IF preset.styles = Undefined
          THEN /\ Count(errors, <<"styles", id>>) = 1
               /\ ~validation.result.isValid
               /\ About("light") = {} /\ About("dark") = {}
          ELSE \A m \in {"light", "dark"} :
                 IF preset.styles[m] = Undefined
                 THEN /\ Count(errors, <<"mode-styles", id, m>>) = 1
                      /\ Cardinality(About(m)) = 1
                 ELSE /\ Count(errors, <<"mode-styles", id, m>>) = 0
                      /\ \A p \in RequiredSet :
                           Count(errors, <<"required", id, m, p>>)
                             = IF p \in DOMAIN preset.styles[m] /\ preset.styles[m][p] # Raw("")
                               THEN 0 ELSE 1
                      /\ Cardinality(About(m))
                           = Cardinality({p \in RequiredSet :
                                            \/ p \notin DOMAIN preset.styles[m]
                                            \/ preset.styles[m][p] = Raw("")})
                      /\ \A p \in RecommendedSet \ DOMAIN preset.styles[m] :
                           /\ Count(warnings, <<"recommended", id, m, p>>) = 1
                           /\ \A i \in DOMAIN errors : errors[i] # <<"required", id, m, p>>

\* A preset whose light map lacks a required property, has another one
\* empty and lacks a recommended one, and whose dark map has the required
\* properties only: two errors for light, none for dark, warnings for both.
C24_Witness ==
  /\ validation.call = "validateTweakCNPreset"
  /\ candidate[validation.index][1] = "brand"
  /\ candidate[validation.index][2] # Undefined
  /\ candidate[validation.index][2].label = "Gap"
  /\ validation.result.errors
       = << <<"required", "brand", "light", "primary">>,
            <<"required", "brand", "light", "card">> >>
  /\ Count(validation.result.warnings, <<"recommended", "brand", "light", "ring">>) = 1
  /\ Len(validation.result.warnings) = 12

\* C25: a present, non-empty value of a mode map that is in none of the
\* syntaxes of the recognizer (hex, hsl(), rgb(), var(), a named colour)
\* produces a warning for its property, and no error.
C25_UnrecognizedValueWarns ==
  (/\ validation.call = "validateTweakCNPreset"
   /\ candidate[validation.index][2] # Undefined
   /\ candidate[validation.index][2].styles # Undefined)
    => LET id == candidate[validation.index][1]
           styles == candidate[validation.index][2].styles
       IN \A m \in {"light", "dark"} :
            styles[m] # Undefined
              => \A key \in DOMAIN styles[m] :
                   (/\ styles[m][key] # Raw("")
                    /\ styles[m][key].k \notin {"hex", "hsl", "rgb", "var", "named"})
                     => Count(validation.result.warnings, <<"color", id, m, key>>) = 1

\* Keys that are empty or whitespace only, and keys outside [a-z0-9-_]+.
BlankKey(k) == k \in {"", " "}
OffPatternKey(k) == k \in {"My Brand"}

RECURSIVE ValidatedErrorCount(_, _)
ValidatedErrorCount(coll, i) ==
  IF i > Len(coll) THEN 0
  ELSE (IF BlankKey(coll[i][1]) THEN 0
        ELSE Len(validateTweakCNPreset(coll[i][2], coll[i][1]).errors))
       + ValidatedErrorCount(coll, i + 1)

\* C26: in the result of validateCustomPresets an entry under an empty or
\* whitespace-only key has one error for the key and no message about its
\* content; an entry under a key outside [a-z0-9-_]+ has a warning for the
\* key and the errors and warnings of its preset; and the errors are the key
\* errors and the errors of the validated presets, nothing else.
C26_CollectionErrors ==
  validation.call = "validateCustomPresets"
    => LET errors == validation.result.errors
           warnings == validation.result.warnings
           blank == {i \in DOMAIN candidate : BlankKey(candidate[i][1])}
       IN /\ Count(errors, <<"id">>) = Cardinality(blank)
          /\ \A i \in DOMAIN errors :
               errors[i] # <<"id">> => ~BlankKey(errors[i][2])
          /\ \A i \in DOMAIN warnings : ~BlankKey(warnings[i][2])
          /\ \A i \in DOMAIN candidate \ blank :
               LET id == candidate[i][1]
                   own == validateTweakCNPreset(candidate[i][2], id)
               IN /\ Count(warnings, <<"id-pattern", id>>)
                       = IF OffPatternKey(id) THEN 1 ELSE 0
                  /\ \A j \in DOMAIN own.errors : Count(errors, own.errors[j]) = 1
                  /\ \A j \in DOMAIN own.warnings : Count(warnings, own.warnings[j]) = 1
          /\ Len(errors) = Cardinality(blank) + ValidatedErrorCount(candidate, 1)

\* A preset without styles under a whitespace key and a preset with one
\* mode under a key with a capital and a space: one error for the first
\* key, the mode error of the second preset, a warning for the second key.
C26_Witness ==
  /\ validation.call = "validateCustomPresets"
  /\ Len(candidate) = 2
  /\ candidate[1][1] = " "
  /\ candidate[1][2] # Undefined
  /\ candidate[1][2].label = "Broken"
  /\ candidate[2][1] = "My Brand"
  /\ candidate[2][2] # Undefined
  /\ candidate[2][2].label = "Half"
  /\ validation.result.errors = << <<"id">>, <<"mode-styles", "My Brand", "dark">> >>
  /\ validation.result.warnings = << <<"id-pattern", "My Brand">> >>

\* C27: running the bootstrap script leaves the light/dark class of the
\* root element as it was when the document was loaded, that is, without
\* either class.
C27_ScriptLeavesClass ==
  bootDom.ran => bootDom.rootClasses \cap {"light", "dark"} = {}

\* C28: applications leave the presets as they were: the style maps of the
\* built-in presets, of the custom presets and of the preset objects handed
\* to applyPreset keep their keys and values, and so do the maps of a
\* currentPreset that was read from storage.
C28_PresetsNotMutated ==
  /\ heap = InitialHeap(Collection)
  /\ (currentPreset # Null /\ currentPreset.ref = NoRef /\ atLoad.presetSlot.t = "json")
       => currentPreset.colors = atLoad.presetSlot.v.colors

\* C29: when toggleMode returns, the update of the mode state has been
\* requested and the mode slot holds the target mode, whether the toggle
\* was immediate or animated.
C29_ToggleUpdatesBeforeReturn ==
  [][(now' # now /\ Last(history').op = "toggleMode" /\ CanWriteMode)
       => LET target == ToggledMode(mode, resolvedMode)
          IN /\ queue'.mode = Update(target)
             /\ modeSlot' = Str(target)]_vars

\* The effects of the committed render have run.
EffectsHaveRun == phase = "mounted" /\ pending = {} /\ ~flushing

\* C30: at most one OS-preference listener is ever registered; once the
\* effects have run there is one exactly when mode is system; after an
\* unmount there is none; and an OS preference change while mode is light
\* or dark, or after the unmount, requests no state update and changes no
\* state, no slot and nothing on the root.
C30_ListenerIffSystem ==
  /\ [](/\ listeners \in {0, 1}
        /\ EffectsHaveRun => listeners = (IF mode = "system" THEN 1 ELSE 0)
        /\ phase = "unmounted" => listeners = 0)
  /\ [][(/\ now' # now
         /\ Last(history').op = "osChange"
         /\ \/ EffectsHaveRun /\ mode \in {"light", "dark"}
            \/ phase = "unmounted")
          => UNCHANGED <<queue, mode, resolvedMode, currentPreset, modeSlot,
                         presetSlot, domVars, listeners>>]_vars

\* The mode left system for light, the effects ran, and the OS preference
\* changed afterwards.
C30_Witness ==
  /\ Quiescent
  /\ cfg.defaultMode = "system"
  /\ mode = "light"
  /\ listeners = 0
  /\ Len(history) = 2
  /\ history[1].op = "setMode"
  /\ history[2].op = "osChange"

\* C31: after a preset has been applied for a target mode, by the provider
\* or by the script, every font the target map defines is on the root with
\* the target map's value, every font it does not define and the other map
\* defines is on the root with the other map's value, and the two
\* implementations leave the same fonts on the root.
C31_FontInheritance ==
  (probe # Undefined /\ probe.fn = "apply" /\ outcome.calls = 1)
    => LET target == probe.preset[probe.mode]
           other == probe.preset[otherMode(probe.mode)]
           root == outcome.value.vars
       IN \A f \in fontProperties :
            /\ Defines(target, f) => Written(root, f) = target[f]
            /\ (~Defines(target, f) /\ Defines(other, f)) => Written(root, f) = other[f]
            /\ Written(ProviderApply(probe.preset, probe.mode, probe.vars,
                                      probe.inherited).vars, f)
                 = Written(ScriptApply(probe.preset, probe.mode, probe.vars,
                                       probe.inherited).vars, f)

\* C32: a second application of the same preset for the same mode leaves
\* on the root the custom properties, names and values, that the first
\* application left.
C32_ApplyTwiceAsOnce ==
  (probe # Undefined /\ probe.fn = "apply" /\ outcome.calls = 2)
    => outcome.value.vars = outcome.first.vars

\* The provider applied twice a preset whose target map inherited a font
\* and has a colour value that the browser rejects, to a root that carried
\* properties of an earlier preset, on a page whose text colour follows the
\* dark color-scheme.
C32_Witness ==
  /\ probe # Undefined
  /\ probe.fn = "apply"
  /\ outcome.calls = 2
  /\ outcome.by = "provider"
  /\ probe.mode = "dark"
  /\ probe.inherited = CanvasText("dark")
  /\ Written(outcome.value.vars, "accent") = Triplet(0, 0, 100)
  /\ DOMAIN probe.vars \cap ALL_CSS_PROPERTIES # {}
  /\ "font-mono" \notin DOMAIN probe.preset[probe.mode]
  /\ Defines(probe.preset[otherMode(probe.mode)], "font-mono")
  /\ Written(outcome.value.vars, "font-mono") = probe.preset[otherMode(probe.mode)]["font-mono"]
  /\ "card" \notin DOMAIN outcome.value.vars

\* C33: in a state with no current preset, no scheduled effect and no
\* requested update, the root carries no custom property of the fixed set;
\* nor does it after the bootstrap script when there is no preset to
\* restore.
C33_NoPresetNoProperties ==
  /\ (Quiescent /\ currentPreset = Null)
       => DOMAIN cssVars \cap ALL_CSS_PROPERTIES = {}
  /\ (phase = "boot" /\ ScriptPresetToApply = Undefined)
       => DOMAIN cssVars \cap ALL_CSS_PROPERTIES = {}

\* C34: the normalizer of the provider and that of the script return for
\* rgb(r, g, b) the triplet they return for the hex string with the same
\* channels.
C34_RgbAsHex ==
  (probe # Undefined /\ probe.fn = "normalize" /\ outcome.calls = 1
     /\ probe.value.k = "rgb")
    => outcome.value
         = NormalizeBy(outcome.by, Hex(probe.value.a, probe.value.b, probe.value.c),
                       probe.inherited)

\* C35: the normalizer returns what it returned when it is called on its
\* own result, and it returns a raw triplet as it was given.
C35_NormalizeIdempotent ==
  /\ (probe # Undefined /\ probe.fn = "normalize" /\ outcome.calls = 2)
       => outcome.value = outcome.first
  /\ (probe # Undefined /\ probe.fn = "normalize" /\ outcome.calls = 1
        /\ probe.value.k = "triplet")
       => outcome.value = probe.value

\* C36: a call of toggleMode issued while the change requested by the
\* call before it is still outstanding (no render since, or the view
\* transition's callback not yet run) asks for the opposite of what that
\* call asked for, so that the two calls together settle with the resolved
\* mode they started from.
C36_NoToggleLost ==
  [][(/\ now' # now
      /\ Last(history').op = "toggleMode"
      /\ now = 2
      /\ history # <<>>
      /\ Last(history).op = "toggleMode")
       => /\ (Last(history').arg = "instant" /\ queue.mode # NoUpdate)
               => queue'.mode = Update(otherMode(queue.mode.v))
          /\ (Last(history').arg = "animated" /\ transitions # <<>>)
               => Last(transitions') = otherMode(Last(transitions))]_vars

\* What identifies a preset state: the object, its id and its time stamp.
PresetIdentity(cp) ==
  IF cp = Null THEN Null
  ELSE [presetId |-> cp.presetId, appliedAt |-> cp.appliedAt, ref |-> cp.ref]

\* The preset state that the next render shows.
RequestedPreset ==
  IF queue.currentPreset # NoUpdate THEN queue.currentPreset.v ELSE currentPreset

\* The effects that the mount scheduled have not all run: the mount is the
\* only render that schedules the load effect together with the others.
MountEffectsOutstanding == {"loadPreset", "resolveMode"} \subseteq pending

\* C37: after the reconciliation that follows the mount, the provider's
\* preset state is replaced only in a call of applyPreset,
\* setThemePresetById or clearPreset: no other step of a mounted provider
\* requests another preset state.
C37_PresetChangesOnlyByOperation ==
  [][(/\ phase = "mounted"
      /\ phase' = "mounted"
      /\ ~MountEffectsOutstanding
      /\ PresetIdentity(RequestedPreset') # PresetIdentity(RequestedPreset))
       => /\ now' # now
          /\ Last(history').op \in {"applyPreset", "setThemePresetById", "clearPreset"}]_vars

\* C38: in a settled state of a mounted provider over a working storage
\* the mode slot is empty or holds the mode, and the preset slot is empty
\* or holds a serialized preset state with the id of the current preset;
\* a change of the OS preference writes neither slot.
C38_SlotsMirrorState ==
  /\ [](Quiescent
          => /\ modeSlot = Absent \/ modeSlot = Str(mode)
             /\ \/ presetSlot = Absent
                \/ /\ presetSlot.t = "json"
                   /\ presetSlot.v.j = "object"
                   /\ currentPreset # Null
                   /\ presetSlot.v.presetId = currentPreset.presetId)
  /\ [][(now' # now /\ Last(history').op = "osChange")
          => UNCHANGED <<modeSlot, presetSlot>>]_vars

\* A preset was chosen by id while the effects of the mount were still to
\* run: the load effect has adopted the state that the call stored, and the
\* mode slot was never written.
C38_Witness ==
  /\ Quiescent
  /\ cfg.defaultPreset = ""
  /\ Len(history) = 1
  /\ history[1].op = "setThemePresetById"
  /\ history[1].arg = "modern-minimal"
  /\ currentPreset # Null
  /\ currentPreset.ref = NoRef
  /\ currentPreset.presetId = "modern-minimal"
  /\ presetSlot.t = "json"
  /\ presetSlot.v.presetId = "modern-minimal"
  /\ modeSlot = Absent

\* C39: the cascade that follows the mount, and the one that follows an
\* operation or an OS change, ends: a mounted provider always reaches again
\* a state with no scheduled effect and no outstanding update.
C39_ReconciliationConverges == []<>(phase # "mounted" \/ Quiescent)

\* applyPreset was called while the effects of the mount were still to run,
\* under preference system on a dark OS: the mount's effects, the render of
\* what they and the call requested and the effects of that render have
\* run, and the state is settled.
C39_Witness ==
  /\ Quiescent
  /\ cfg.defaultMode = "system"
  /\ prefersDark
  /\ Len(history) = 1
  /\ history[1].op = "applyPreset"
  /\ currentPreset # Null
  /\ currentPreset.ref = NoRef
  /\ resolvedMode = "dark"
  /\ rootClasses = {"dark"}


\* Lines 217 and 645: the context's customPresets is the customPresets prop
\* itself (an empty collection when the prop is absent), whatever the
\* validation of lines 248-268 said about it.
normalizedCustomPresets == Collection

\* C40: every preset id the mounted provider exposes through the context's
\* customPresets is a key of the merged registry availablePresets, with the
\* entry of the custom collection; a collection that validation rejected
\* exposes no id.
C40_ExposedCustomPresetsInRegistry ==
  phase = "mounted"
    => \A id \in CollectionKeys(normalizedCustomPresets) :
         /\ id \in DOMAIN availablePresets(Collection)
         /\ availablePresets(Collection)[id] = CustomEntry(normalizedCustomPresets, id)

====
